---- MODULE Spec2Model ----
(***************************************************************************)
(* Pidgin translation engine of opal-backend-shared (pidgin.py): the       *)
(* encoder to_pidgin / content_to_pidgin_string, the decoder               *)
(* from_pidgin_string, the text-part merger _merge_text_parts, and the     *)
(* content store (AgentFileSystem) they register parts in and resolve      *)
(* handles against.                                                        *)
(*                                                                         *)
(* A Python str is a sequence of one-character strings, so that the        *)
(* f-strings, joins and regular expressions of the code are computed       *)
(* character by character.  A Python dict is a function whose domain is    *)
(* the set of its keys; a list is a sequence.                              *)
(***************************************************************************)
EXTENDS Integers, Sequences, FiniteSets, TLC

VARIABLES
    fs,      \* the AgentFileSystem shared by every call of the session
    last,    \* the last call: its function, arguments, result, store calls
    setups,  \* number of direct store calls made so far (write / add_part)
    cycles   \* number of encode->decode cycles chained so far

vars == <<fs, last, setups, cycles>>

---------------------------------------------------------------------------
(* Bounds of the model.                                                    *)

MaxParts == 2      \* parts of a content block handed to the encoder
MaxSegments == 2   \* segments of one to_pidgin call
MaxSetups == 1     \* direct store calls before the translation calls
MaxCycles == 2     \* chained encode->decode cycles
MaxMergeLen == 3   \* length of a part list handed to _merge_text_parts
MaxCallSegments == 1  \* segments of each of the interleaved to_pidgin calls

---------------------------------------------------------------------------
(* Strings.                                                                *)

Whitespace == {" ", "\n", "\t"}

Min(S) == CHOOSE x \in S : \A y \in S : x <= y
Max(S) == CHOOSE x \in S : \A y \in S : x >= y

\* s[i:] starts with lit
StartsWithAt(s, i, lit) ==
    /\ i >= 1
    /\ i + Len(lit) - 1 <= Len(s)
    /\ SubSeq(s, i, i + Len(lit) - 1) = lit

startswith(s, prefix) == StartsWithAt(s, 1, prefix)

\* The first index j >= i with s[j] in C, or Len(s) + 1 when there is none.
NextIn(s, i, C) ==
    LET hits == {j \in i..Len(s) : s[j] \in C}
    IN  IF hits = {} THEN Len(s) + 1 ELSE Min(hits)

\* The first index j >= i with s[j] not in C, or Len(s) + 1 (a greedy C*).
SkipAll(s, i, C) ==
    LET hits == {j \in i..Len(s) : s[j] \notin C}
    IN  IF hits = {} THEN Len(s) + 1 ELSE Min(hits)

\* str.strip()
strip(s) ==
    LET keep == {j \in 1..Len(s) : s[j] \notin Whitespace}
    IN  IF keep = {} THEN <<>> ELSE SubSeq(s, Min(keep), Max(keep))

\* sep.join(list)
RECURSIVE join(_, _)
join(sep, list) ==
    IF list = <<>> THEN <<>>
    ELSE IF Len(list) = 1 THEN list[1]
    ELSE list[1] \o sep \o join(sep, Tail(list))

\* "".join(list)
RECURSIVE concat(_)
concat(list) == IF list = <<>> THEN <<>> ELSE list[1] \o concat(Tail(list))

\* s in t (substring test), for a non-empty s
Contains(t, s) ==
    \E i \in 1..(Len(t) - Len(s) + 1) : t[i] = s[1] /\ StartsWithAt(t, i, s)

Digit(d) == <<"0", "1", "2", "3", "4", "5", "6", "7", "8", "9">>[d + 1]

\* str(n) for n >= 0
RECURSIVE str(_)
str(n) == IF n < 10 THEN <<Digit(n)>> ELSE str(n \div 10) \o <<Digit(n % 10)>>

\* "x" * n
Fill(n) == [i \in 1..n |-> "x"]

---------------------------------------------------------------------------
(* Constants of pidgin.py.                                                 *)

ROUTE_TOOL_PATH ==
    <<"c","o","n","t","r","o","l","-","f","l","o","w","/",
      "r","o","u","t","i","n","g">>
MEMORY_TOOL_PATH ==
    <<"f","u","n","c","t","i","o","n","-","g","r","o","u","p","/",
      "u","s","e","-","m","e","m","o","r","y">>
NOTEBOOKLM_TOOL_PATH ==
    <<"f","u","n","c","t","i","o","n","-","g","r","o","u","p","/",
      "n","o","t","e","b","o","o","k","l","m">>
NOTEBOOKLM_URL_PREFIX ==
    <<"h","t","t","p","s",":","/","/","n","o","t","e","b","o","o","k","l","m",
      ".","g","o","o","g","l","e",".","c","o","m","/",
      "n","o","t","e","b","o","o","k","/">>

MAX_INLINE_CHARACTER_LENGTH == 1000

ErrorKey == "$error"
ErrorDict(msg) == (ErrorKey :> msg)
IsErrorDict(r) == ErrorKey \in DOMAIN r

---------------------------------------------------------------------------
(* The content store (AgentFileSystem).  Its code is not part of the       *)
(* sources at hand; it is modelled from its contract: add_part registers   *)
(* one part under a fresh path below /mnt/ named by an incrementing index  *)
(* and a mime-derived extension, or fails; add_route returns a token for   *)
(* a routing target; get resolves a path to the parts stored under it, or  *)
(* fails for an unknown path; write stores a text file under a name.       *)
(* A store call returns [ok |-> TRUE, value |-> v] or                      *)
(* [ok |-> FALSE, value |-> {"$error": msg}].                              *)

MountPrefix == <<"/","m","n","t","/">>

EmptyFileSystem == [files |-> <<>>, count |-> 0, routes |-> <<>>]

Paths(store) == DOMAIN store.files

MimeOf(part) ==
    IF "inlineData" \in DOMAIN part THEN part.inlineData.mimeType
    ELSE IF "storedData" \in DOMAIN part THEN part.storedData.mimeType
    ELSE "text/plain"

FileStem(mime) ==
    CASE mime = "image/png" -> <<"i","m","a","g","e">>
      [] mime = "image/jpeg" -> <<"i","m","a","g","e">>
      [] mime = "text/plain" -> <<"t","e","x","t">>
      [] OTHER -> <<"f","i","l","e">>

FileExtension(mime) ==
    CASE mime = "image/png" -> <<".","p","n","g">>
      [] mime = "image/jpeg" -> <<".","j","p","g">>
      [] mime = "text/plain" -> <<".","m","d">>
      [] OTHER -> <<".","b","i","n">>

PathFor(index, part) ==
    MountPrefix \o FileStem(MimeOf(part)) \o str(index)
        \o FileExtension(MimeOf(part))

FsFull == <<"F","S"," ","f","u","l","l">>

\* fs.add_part(part); accept is the store's own decision to take the part
fs_add_part(store, part, accept) ==
    IF accept
    THEN [fs |-> [store EXCEPT
                     !.files = (PathFor(store.count + 1, part) :> <<part>>) @@ @,
                     !.count = @ + 1],
          ok |-> TRUE, value |-> PathFor(store.count + 1, part)]
    ELSE [fs |-> store, ok |-> FALSE, value |-> ErrorDict(FsFull)]

RoutePrefix == <<"/","r","o","u","t","e","-">>

\* fs.add_route(instance)
fs_add_route(store, instance) ==
    [fs |-> [store EXCEPT !.routes = Append(@, instance)],
     value |-> RoutePrefix \o str(Len(store.routes) + 1)]

FileNotFound == <<"F","i","l","e"," ","n","o","t"," ","f","o","u","n","d",":"," ">>

\* fs.get(path)
fs_get(store, path) ==
    IF path \in Paths(store)
    THEN [ok |-> TRUE, value |-> store.files[path]]
    ELSE [ok |-> FALSE, value |-> ErrorDict(FileNotFound \o path)]

\* fs.write(name, content)
fs_write(store, name, content) ==
    [store EXCEPT !.files = ((MountPrefix \o name) :> <<[text |-> content]>>) @@ @]

\* a file of several parts under one handle
fs_put(store, path, parts) ==
    [store EXCEPT !.files = (path :> parts) @@ @]

---------------------------------------------------------------------------
(* _merge_text_parts                                                       *)

Newline == <<"\n">>

\* "text" in part and len(part) == 1
IsPureText(part) == "text" \in DOMAIN part /\ Cardinality(DOMAIN part) = 1

\* MergeStep that never merges
MergeStepAppend(merged, part, separator) == Append(merged, part)

\* MergeStep with the else of the inner if missing: a merged text part is
\* appended once more
MergeStepMissingElse(merged, part, separator) ==
    IF IsPureText(part)
    THEN Append(IF merged # <<>> /\ IsPureText(merged[Len(merged)])
                THEN [merged EXCEPT ![Len(merged)] =
                         [text |-> @.text \o separator \o part.text]]
                ELSE merged,
                part)
    ELSE Append(merged, part)

\* one iteration of the loop over parts
MergeStep(merged, part, separator) ==
    IF IsPureText(part)
    THEN IF merged # <<>> /\ IsPureText(merged[Len(merged)])
         THEN [merged EXCEPT ![Len(merged)] =
                  [text |-> @.text \o separator \o part.text]]
         ELSE Append(merged, part)
    ELSE Append(merged, part)

RECURSIVE MergeLoop(_, _, _, _)
MergeLoop(parts, i, merged, separator) ==
    IF i > Len(parts) THEN merged
    ELSE MergeLoop(parts, i + 1, MergeStep(merged, parts[i], separator), separator)

_merge_text_parts(parts) == MergeLoop(parts, 1, <<>>, Newline)

(* The same loop on objects.  The parts of the argument are the objects    *)
(* 1..Len(parts) of the heap; merged is a list of references, and the      *)
(* assignment to the text of merged[-1] changes the object the last        *)
(* reference points to, whoever else holds it.                             *)

\* MergeObject without the copy dict(part): the part itself is appended
MergeObjectAliased(st, ref, separator) ==
    IF /\ IsPureText(st.heap[ref])
       /\ st.merged # <<>>
       /\ IsPureText(st.heap[st.merged[Len(st.merged)]])
    THEN [st EXCEPT !.heap[st.merged[Len(st.merged)]].text =
                        @ \o separator \o st.heap[ref].text]
    ELSE [st EXCEPT !.merged = Append(@, ref)]

\* one iteration of the loop, for the part at ref
MergeObject(st, ref, separator) ==
    IF IsPureText(st.heap[ref])
    THEN IF st.merged # <<>> /\ IsPureText(st.heap[st.merged[Len(st.merged)]])
         THEN [st EXCEPT !.heap[st.merged[Len(st.merged)]].text =
                             @ \o separator \o st.heap[ref].text]
         ELSE [st EXCEPT !.heap = Append(@, st.heap[ref]),
                         !.merged = Append(@, Len(st.heap) + 1)]
    ELSE [st EXCEPT !.merged = Append(@, ref)]

\* the heap and the returned list of references after the loop
RECURSIVE MergeObjects(_, _, _, _)
MergeObjects(parts, i, st, separator) ==
    IF i > Len(parts) THEN st
    ELSE MergeObjects(parts, i + 1, MergeObject(st, i, separator), separator)

---------------------------------------------------------------------------
(* Regular expressions.  The three patterns of pidgin.py are sequences of  *)
(* literals and greedy character-class runs in which every run is followed *)
(* by a character outside its class, so a match at a position is unique    *)
(* and a greedy left-to-right scan finds it without backtracking.          *)

Quote == "\""

Lit(chars) == [kind |-> "lit", chars |-> chars]
\* a greedy run of at least min characters in (negated: not in) class;
\* group: the run is a capturing group
Run(class, negated, min, group) ==
    [kind |-> "run", class |-> class, negated |-> negated, min |-> min,
     group |-> group]

Ws0 == Run(Whitespace, FALSE, 0, FALSE)   \* \s*
Ws1 == Run(Whitespace, FALSE, 1, FALSE)   \* \s+

NoMatch == [end |-> 0, groups |-> <<>>]

\* the index after the run el that starts at pos
RunEnd(s, pos, el) ==
    IF el.negated THEN NextIn(s, pos, el.class) ELSE SkipAll(s, pos, el.class)

\* re[k..] matched at index pos of s: end is the index after the match (0
\* when there is none), groups the capturing groups in order
RECURSIVE Match(_, _, _, _, _)
AfterRun(s, pos, re, k, groups, end) ==
    IF end - pos < re[k].min THEN NoMatch
    ELSE Match(s, end, re, k + 1,
               IF re[k].group THEN Append(groups, SubSeq(s, pos, end - 1))
               ELSE groups)

Match(s, pos, re, k, groups) ==
    IF k > Len(re) THEN [end |-> pos, groups |-> groups]
    ELSE IF re[k].kind = "lit"
    THEN IF StartsWithAt(s, pos, re[k].chars)
         THEN Match(s, pos + Len(re[k].chars), re, k + 1, groups)
         ELSE NoMatch
    ELSE AfterRun(s, pos, re, k, groups, RunEnd(s, pos, re[k]))

\* pattern.match(s)
match(re, s) == Match(s, 1, re, 1, <<>>)

\* _FILE_PARSE_REGEX written for the opening content tag
ContentParseRegex ==
    <<Lit(<<"<","c","o","n","t","e","n","t">>), Ws1, Lit(<<"s","r","c">>), Ws0,
      Lit(<<"=">>), Ws0, Lit(<<Quote>>), Run({Quote}, TRUE, 0, TRUE),
      Lit(<<Quote>>), Ws0, Lit(<<">">>)>>

\* <file\s+src\s*=\s*"([^"]*)"\s*/>
_FILE_PARSE_REGEX ==
    <<Lit(<<"<","f","i","l","e">>), Ws1, Lit(<<"s","r","c">>), Ws0,
      Lit(<<"=">>), Ws0, Lit(<<Quote>>), Run({Quote}, TRUE, 0, TRUE),
      Lit(<<Quote>>), Ws0, Lit(<<"/",">">>)>>

\* <a\s+href\s*=\s*"([^"]*)"\s*>\s*([^<]*)\s*</a>
_LINK_PARSE_REGEX ==
    <<Lit(<<"<","a">>), Ws1, Lit(<<"h","r","e","f">>), Ws0,
      Lit(<<"=">>), Ws0, Lit(<<Quote>>), Run({Quote}, TRUE, 0, TRUE),
      Lit(<<Quote>>), Ws0, Lit(<<">">>), Ws0, Run({"<"}, TRUE, 0, TRUE), Ws0,
      Lit(<<"<","/","a",">">>)>>

\* (<file\s+src\s*=\s*"[^"]*"\s*/>|<a\s+href\s*=\s*"[^"]*"\s*>[^<]*</a>):
\* the two alternatives, tried in this order
_SPLIT_REGEX ==
    <<
      <<Lit(<<"<","f","i","l","e">>), Ws1, Lit(<<"s","r","c">>), Ws0,
        Lit(<<"=">>), Ws0, Lit(<<Quote>>), Run({Quote}, TRUE, 0, FALSE),
        Lit(<<Quote>>), Ws0, Lit(<<"/",">">>)>>,
      <<Lit(<<"<","a">>), Ws1, Lit(<<"h","r","e","f">>), Ws0,
        Lit(<<"=">>), Ws0, Lit(<<Quote>>), Run({Quote}, TRUE, 0, FALSE),
        Lit(<<Quote>>), Ws0, Lit(<<">">>), Run({"<"}, TRUE, 0, FALSE),
        Lit(<<"<","/","a",">">>)>>
    >>

FirstMatchEnd(first, second) == IF first.end # 0 THEN first.end ELSE second.end

\* _SPLIT_REGEX matched at index i of s: the index after the match, or 0
SplitMatchEnd(s, i) ==
    FirstMatchEnd(Match(s, i, _SPLIT_REGEX[1], 1, <<>>),
                  Match(s, i, _SPLIT_REGEX[2], 1, <<>>))

\* _SPLIT_REGEX.split(s[from:]): text, delimiter, text, ..., delimiter, text.
\* Both alternatives begin with <, so only those indexes are tried.
RECURSIVE SplitFrom(_, _)
SplitAt(s, from, starts) ==
    IF starts = {} THEN <<SubSeq(s, from, Len(s))>>
    ELSE <<SubSeq(s, from, Min(starts) - 1),
           SubSeq(s, Min(starts), SplitMatchEnd(s, Min(starts)) - 1)>>
             \o SplitFrom(s, SplitMatchEnd(s, Min(starts)))

SplitFrom(s, from) ==
    SplitAt(s, from, {i \in from..Len(s) : s[i] = "<" /\ SplitMatchEnd(s, i) # 0})

split(s) == SplitFrom(s, 1)

---------------------------------------------------------------------------
(* from_pidgin_string                                                      *)

UnableToProceed ==
    <<"A","g","e","n","t"," ","u","n","a","b","l","e"," ","t","o"," ",
      "p","r","o","c","e","e","d",":"," ">>
Comma == <<",">>

\* FileToken with an unresolvable handle dropped instead of reported
FileTokenDropped(acc, path, result) ==
    IF ~result.ok
    THEN [acc EXCEPT !.gets = Append(@, path)]
    ELSE [acc EXCEPT !.gets = Append(@, path),
                     !.parts = @ \o result.value]

\* FileToken with the resolved parts put in front of the parts so far
FileTokenPrepended(acc, path, result) ==
    IF ~result.ok
    THEN [acc EXCEPT !.gets = Append(@, path),
                     !.errors = Append(@, result.value[ErrorKey])]
    ELSE [acc EXCEPT !.gets = Append(@, path),
                     !.parts = result.value \o @]

\* FileToken with a second get for the same path
FileTokenTwice(acc, path, result) ==
    IF ~result.ok
    THEN [acc EXCEPT !.gets = @ \o <<path, path>>,
                     !.errors = Append(@, result.value[ErrorKey])]
    ELSE [acc EXCEPT !.gets = @ \o <<path, path>>,
                     !.parts = @ \o result.value]

\* the file branch of the loop body: result = file_system.get(path)
FileToken(acc, path, result) ==
    IF ~result.ok
    THEN [acc EXCEPT !.gets = Append(@, path),
                     !.errors = Append(@, result.value[ErrorKey])]
    ELSE [acc EXCEPT !.gets = Append(@, path),
                     !.parts = @ \o result.value]

\* Token with the href of a link kept in front of its title
TokenHrefKept(acc, segment, store, file_match, link_match) ==
    IF file_match.end # 0
    THEN FileToken(acc, file_match.groups[1], fs_get(store, file_match.groups[1]))
    ELSE IF link_match.end # 0
    THEN [acc EXCEPT !.parts = Append(@, [text |-> link_match.groups[1]
                                             \o strip(link_match.groups[2])])]
    ELSE IF segment # <<>>
    THEN [acc EXCEPT !.parts = Append(@, [text |-> segment])]
    ELSE acc

\* Token with the title of a link left untrimmed
TokenUntrimmed(acc, segment, store, file_match, link_match) ==
    IF file_match.end # 0
    THEN FileToken(acc, file_match.groups[1], fs_get(store, file_match.groups[1]))
    ELSE IF link_match.end # 0
    THEN [acc EXCEPT !.parts = Append(@, [text |-> link_match.groups[2]])]
    ELSE IF segment # <<>>
    THEN [acc EXCEPT !.parts = Append(@, [text |-> segment])]
    ELSE acc

\* one iteration of the loop over segments; acc holds parts, errors and the
\* paths handed to fs.get so far
Token(acc, segment, store, file_match, link_match) ==
    IF file_match.end # 0
    THEN FileToken(acc, file_match.groups[1], fs_get(store, file_match.groups[1]))
    ELSE IF link_match.end # 0
    THEN [acc EXCEPT !.parts = Append(@, [text |-> strip(link_match.groups[2])])]
    ELSE IF segment # <<>>
    THEN [acc EXCEPT !.parts = Append(@, [text |-> segment])]
    ELSE acc

DecodeStep(acc, segment, store) ==
    Token(acc, segment, store,
          match(_FILE_PARSE_REGEX, segment), match(_LINK_PARSE_REGEX, segment))

RECURSIVE DecodeLoop(_, _, _, _)
DecodeLoop(segments, i, acc, store) ==
    IF i > Len(segments) THEN acc
    ELSE DecodeLoop(segments, i + 1, DecodeStep(acc, segments[i], store), store)

\* the return statements: the value returned, the paths handed to fs.get,
\* and the part list before merging
Decoded(acc) ==
    [result |-> IF acc.errors # <<>>
                THEN ErrorDict(UnableToProceed \o join(Comma, acc.errors))
                ELSE [parts |-> _merge_text_parts(acc.parts), role |-> "user"],
     gets |-> acc.gets,
     raw |-> acc.parts]

\* from_pidgin_string(content, file_system)
from_pidgin_string(content, store) ==
    Decoded(DecodeLoop(split(content), 1,
                       [parts |-> <<>>, errors |-> <<>>, gets |-> <<>>], store))

---------------------------------------------------------------------------
(* content_to_pidgin_string                                                *)
(* The encoder threads an environment through its store calls:             *)
(*   fs      the store                                                     *)
(*   adds    the add_part calls made so far, each [part, ok, value]        *)
(*   routes  the add_route calls made so far, each [instance, value]       *)
(*   refuse  the ordinals of the add_part calls the store will refuse      *)

NewEnv(store, refuse) ==
    [fs |-> store, adds |-> <<>>, routes |-> <<>>, refuse |-> refuse]

\* the environment after the add_part call that returned r
Added(env, part, r) ==
    [env EXCEPT !.fs = r.fs,
                !.adds = Append(@, [part |-> part, ok |-> r.ok, value |-> r.value])]

\* name = file_system.add_part(part)
AddPart(env, part) ==
    fs_add_part(env.fs, part, (Len(env.adds) + 1) \notin env.refuse)

\* dict.get(key, default)
Get(dict, key, default) == IF key \in DOMAIN dict THEN dict[key] ELSE default

ContentTag(name, text) ==
    <<"<","c","o","n","t","e","n","t"," ","s","r","c","=",Quote>> \o name
        \o <<Quote,">","\n">> \o text
        \o <<"<","/","c","o","n","t","e","n","t",">">>

FileTag(name) ==
    <<"<","f","i","l","e"," ","s","r","c","=",Quote>> \o name
        \o <<Quote," ","/",">">>

\* LongTextPart with the text dropped when the store refuses the part
LongTextPartDropped(acc, part, name) ==
    [env |-> Added(acc.env, part, name),
     values |-> IF name.ok
                THEN Append(acc.values, ContentTag(name.value, part.text))
                ELSE acc.values]

\* a text part over the threshold, after name = file_system.add_part(part)
LongTextPart(acc, part, name) ==
    [env |-> Added(acc.env, part, name),
     values |-> Append(acc.values,
                       IF name.ok THEN ContentTag(name.value, part.text)
                       ELSE part.text)]

\* DataPart with the part dropped although the store registered it
DataPartSkipped(acc, part, name) ==
    [env |-> Added(acc.env, part, name), values |-> acc.values]

\* DataPart with the mount prefix put in front of the name a second time
DataPartPrefixed(acc, part, name) ==
    [env |-> Added(acc.env, part, name),
     values |-> IF ~name.ok THEN acc.values
                ELSE Append(acc.values, FileTag(MountPrefix \o name.value))]

\* a part without text, after name = file_system.add_part(part)
DataPart(acc, part, name) ==
    [env |-> Added(acc.env, part, name),
     values |-> IF ~name.ok THEN acc.values
                ELSE Append(acc.values, FileTag(name.value))]

\* PartStep with >= for > in the threshold test
PartStepOffByOne(acc, part, text_as_files) ==
    IF "text" \in DOMAIN part
    THEN IF text_as_files /\ Len(part.text) >= MAX_INLINE_CHARACTER_LENGTH
         THEN LongTextPart(acc, part, AddPart(acc.env, part))
         ELSE [acc EXCEPT !.values = Append(@, part.text)]
    ELSE IF /\ "storedData" \in DOMAIN part
            /\ startswith(Get(part.storedData, "handle", <<>>), NOTEBOOKLM_URL_PREFIX)
         THEN [acc EXCEPT !.values = Append(@, Get(part.storedData, "handle", <<>>))]
         ELSE DataPart(acc, part, AddPart(acc.env, part))

\* PartStep without the NotebookLM test
PartStepNoNotebook(acc, part, text_as_files) ==
    IF "text" \in DOMAIN part
    THEN IF text_as_files /\ Len(part.text) > MAX_INLINE_CHARACTER_LENGTH
         THEN LongTextPart(acc, part, AddPart(acc.env, part))
         ELSE [acc EXCEPT !.values = Append(@, part.text)]
    ELSE DataPart(acc, part, AddPart(acc.env, part))

\* one iteration of the loop over parts; acc is [env, values]
PartStep(acc, part, text_as_files) ==
    IF "text" \in DOMAIN part
    THEN IF text_as_files /\ Len(part.text) > MAX_INLINE_CHARACTER_LENGTH
         THEN LongTextPart(acc, part, AddPart(acc.env, part))
         ELSE [acc EXCEPT !.values = Append(@, part.text)]
    ELSE IF /\ "storedData" \in DOMAIN part
            /\ startswith(Get(part.storedData, "handle", <<>>), NOTEBOOKLM_URL_PREFIX)
         THEN [acc EXCEPT !.values = Append(@, Get(part.storedData, "handle", <<>>))]
         ELSE DataPart(acc, part, AddPart(acc.env, part))

RECURSIVE PartLoop(_, _, _, _)
PartLoop(parts, i, acc, text_as_files) ==
    IF i > Len(parts) THEN acc
    ELSE PartLoop(parts, i + 1, PartStep(acc, parts[i], text_as_files), text_as_files)

\* return "\n".join(values), with the environment after the call
Joined(acc) == [text |-> join(Newline, acc.values), env |-> acc.env]

\* content_to_pidgin_string(content, file_system, text_as_files)
content_to_pidgin_string(content, env, text_as_files) ==
    Joined(PartLoop(Get(content, "parts", <<>>), 1,
                    [env |-> env, values |-> <<>>], text_as_files))

---------------------------------------------------------------------------
(* to_pidgin                                                               *)

TypeText == <<"t","e","x","t">>
TypeAsset == <<"a","s","s","e","t">>
TypeInput == <<"i","n","p","u","t">>
TypeTool == <<"t","o","o","l">>

InvalidAssetFormat ==
    <<"A","g","e","n","t",":"," ","I","n","v","a","l","i","d"," ",
      "a","s","s","e","t"," ","f","o","r","m","a","t">>
MalformedRoute ==
    <<"A","g","e","n","t",":"," ","M","a","l","f","o","r","m","e","d"," ",
      "r","o","u","t","e",","," ","m","i","s","s","i","n","g"," ",
      "i","n","s","t","a","n","c","e"," ","p","a","r","a","m">>
UnknownSegmentType ==
    <<"U","n","k","n","o","w","n"," ","s","e","g","m","e","n","t"," ",
      "t","y","p","e",":"," ">>
AgentBanner == <<"A","g","e","n","t",":"," ">>
UseMemory == <<"U","s","e"," ","M","e","m","o","r","y">>
UseNotebookLM == <<"U","s","e"," ","N","o","t","e","b","o","o","k","L","M">>

\* not content or not content.get("parts")
NoParts(segment) ==
    \/ "content" \notin DOMAIN segment
    \/ "parts" \notin DOMAIN segment.content
    \/ Len(segment.content.parts) = 0

AssetTag(title, inner) ==
    <<"<","a","s","s","e","t"," ","t","i","t","l","e","=",Quote>> \o title
        \o <<Quote,">","\n">> \o inner
        \o <<"\n","<","/","a","s","s","e","t",">">>

InputTag(title, inner) ==
    <<"<","i","n","p","u","t"," ","s","o","u","r","c","e","-",
      "a","g","e","n","t","=",Quote>> \o title
        \o <<Quote,">","\n">> \o inner
        \o <<"\n","<","/","i","n","p","u","t",">">>

LinkTag(route_name, title) ==
    <<"<","a"," ","h","r","e","f","=",Quote>> \o route_name
        \o <<Quote,">">> \o title \o <<"<","/","a",">">>

\* values.append(tag) after inner = content_to_pidgin_string(...)
Wrapped(acc, tag, inner) ==
    [acc EXCEPT !.env = inner.env,
                !.values = Append(@, IF tag = TypeAsset
                                     THEN AssetTag(inner.title, inner.text)
                                     ELSE InputTag(inner.title, inner.text))]

\* BlockStep with the asset branch skipping an empty asset as the input
\* branch does
BlockStepSilent(acc, segment, tag) ==
    IF NoParts(segment)
    THEN acc
    ELSE Wrapped(acc, tag,
                 [title |-> Get(segment, "title", tag)]
                     @@ content_to_pidgin_string(segment.content, acc.env, TRUE))

\* the asset and the input branch of the loop body
BlockStep(acc, segment, tag) ==
    IF NoParts(segment)
    THEN IF tag = TypeAsset
         THEN [acc EXCEPT !.errors = Append(@, InvalidAssetFormat)]
         ELSE acc
    ELSE Wrapped(acc, tag,
                 [title |-> Get(segment, "title", tag)]
                     @@ content_to_pidgin_string(segment.content, acc.env, TRUE))

\* the routing branch, after route_name = file_system.add_route(instance)
Routed(acc, segment, route_name) ==
    [acc EXCEPT !.env.fs = route_name.fs,
                !.env.routes = Append(@, [instance |-> segment.instance,
                                          value |-> route_name.value]),
                !.values = Append(@, LinkTag(route_name.value,
                                             Get(segment, "title", <<>>)))]

\* ToolStep with a link emitted for a custom tool as well
ToolStepCustomEmits(acc, segment, path) ==
    IF path = ROUTE_TOOL_PATH
    THEN IF Get(segment, "instance", <<>>) = <<>>
         THEN [acc EXCEPT !.errors = Append(@, MalformedRoute)]
         ELSE Routed(acc, segment, fs_add_route(acc.env.fs, segment.instance))
    ELSE IF path = MEMORY_TOOL_PATH
    THEN [acc EXCEPT !.use_memory = TRUE, !.values = Append(@, UseMemory)]
    ELSE IF path = NOTEBOOKLM_TOOL_PATH
    THEN [acc EXCEPT !.use_notebooklm = TRUE, !.values = Append(@, UseNotebookLM)]
    ELSE [acc EXCEPT !.custom_tool_urls =
              Append(@, [url |-> path, title |-> Get(segment, "title", <<>>)]),
                     !.values = Append(@, LinkTag(path, Get(segment, "title", <<>>)))]

\* ToolStep with the NotebookLM branch setting the memory flag
ToolStepNotebookSetsMemory(acc, segment, path) ==
    IF path = ROUTE_TOOL_PATH
    THEN IF Get(segment, "instance", <<>>) = <<>>
         THEN [acc EXCEPT !.errors = Append(@, MalformedRoute)]
         ELSE Routed(acc, segment, fs_add_route(acc.env.fs, segment.instance))
    ELSE IF path = MEMORY_TOOL_PATH
    THEN [acc EXCEPT !.use_memory = TRUE, !.values = Append(@, UseMemory)]
    ELSE IF path = NOTEBOOKLM_TOOL_PATH
    THEN [acc EXCEPT !.use_memory = TRUE, !.values = Append(@, UseNotebookLM)]
    ELSE [acc EXCEPT !.custom_tool_urls =
              Append(@, [url |-> path, title |-> Get(segment, "title", <<>>)])]

\* ToolStep with the route registered before the instance is looked at
ToolStepRegistersFirst(acc, segment, path) ==
    IF path = ROUTE_TOOL_PATH
    THEN IF Get(segment, "instance", <<>>) = <<>>
         THEN [acc EXCEPT !.errors = Append(@, MalformedRoute),
                          !.env.fs = fs_add_route(acc.env.fs, <<>>).fs,
                          !.env.routes =
                              Append(@, [instance |-> <<>>,
                                         value |-> fs_add_route(acc.env.fs, <<>>).value])]
         ELSE Routed(acc, segment, fs_add_route(acc.env.fs, segment.instance))
    ELSE IF path = MEMORY_TOOL_PATH
    THEN [acc EXCEPT !.use_memory = TRUE, !.values = Append(@, UseMemory)]
    ELSE IF path = NOTEBOOKLM_TOOL_PATH
    THEN [acc EXCEPT !.use_notebooklm = TRUE, !.values = Append(@, UseNotebookLM)]
    ELSE [acc EXCEPT !.custom_tool_urls =
              Append(@, [url |-> path, title |-> Get(segment, "title", <<>>)])]

\* the tool branch of the loop body
ToolStep(acc, segment, path) ==
    IF path = ROUTE_TOOL_PATH
    THEN IF Get(segment, "instance", <<>>) = <<>>
         THEN [acc EXCEPT !.errors = Append(@, MalformedRoute)]
         ELSE Routed(acc, segment, fs_add_route(acc.env.fs, segment.instance))
    ELSE IF path = MEMORY_TOOL_PATH
    THEN [acc EXCEPT !.use_memory = TRUE, !.values = Append(@, UseMemory)]
    ELSE IF path = NOTEBOOKLM_TOOL_PATH
    THEN [acc EXCEPT !.use_notebooklm = TRUE, !.values = Append(@, UseNotebookLM)]
    ELSE [acc EXCEPT !.custom_tool_urls =
              Append(@, [url |-> path, title |-> Get(segment, "title", <<>>)])]

\* TypedStep with an error for a missing or empty type as well
TypedStepStrict(acc, segment, seg_type) ==
    IF seg_type = TypeText
    THEN IF Get(segment, "text", <<>>) # <<>>
         THEN [acc EXCEPT !.values = Append(@, segment.text)]
         ELSE acc
    ELSE IF seg_type \in {TypeAsset, TypeInput} THEN BlockStep(acc, segment, seg_type)
    ELSE IF seg_type = TypeTool THEN ToolStep(acc, segment, Get(segment, "path", <<>>))
    ELSE [acc EXCEPT !.errors = Append(@, UnknownSegmentType \o seg_type)]

\* one iteration of the loop over segments
TypedStep(acc, segment, seg_type) ==
    IF seg_type = TypeText
    THEN IF Get(segment, "text", <<>>) # <<>>
         THEN [acc EXCEPT !.values = Append(@, segment.text)]
         ELSE acc
    ELSE IF seg_type \in {TypeAsset, TypeInput} THEN BlockStep(acc, segment, seg_type)
    ELSE IF seg_type = TypeTool THEN ToolStep(acc, segment, Get(segment, "path", <<>>))
    ELSE IF seg_type # <<>>
    THEN [acc EXCEPT !.errors = Append(@, UnknownSegmentType \o seg_type)]
    ELSE acc

\* SegmentStep that leaves the segments after the first error alone
SegmentStepUntilError(acc, segment) ==
    IF acc.errors # <<>> THEN acc
    ELSE TypedStep(acc, segment, Get(segment, "type", <<>>))

\* one iteration of the loop over segments
SegmentStep(acc, segment) == TypedStep(acc, segment, Get(segment, "type", <<>>))

RECURSIVE SegmentLoop(_, _, _)
SegmentLoop(segments, i, acc) ==
    IF i > Len(segments) THEN acc
    ELSE SegmentLoop(segments, i + 1, SegmentStep(acc, segments[i]))

\* Returned with only the first error reported
ReturnedFirstError(acc) ==
    [result |-> IF acc.errors # <<>>
                THEN ErrorDict(AgentBanner \o acc.errors[1])
                ELSE [text |-> concat(acc.values),
                      use_memory |-> acc.use_memory,
                      use_notebooklm |-> acc.use_notebooklm,
                      custom_tool_urls |-> acc.custom_tool_urls],
     env |-> acc.env]

\* Returned with the fragments joined by newlines
ReturnedOnLines(acc) ==
    [result |-> IF acc.errors # <<>>
                THEN ErrorDict(AgentBanner \o join(Comma, acc.errors))
                ELSE [text |-> join(Newline, acc.values),
                      use_memory |-> acc.use_memory,
                      use_notebooklm |-> acc.use_notebooklm,
                      custom_tool_urls |-> acc.custom_tool_urls],
     env |-> acc.env]

\* the return statements, with the environment after the call
Returned(acc) ==
    [result |-> IF acc.errors # <<>>
                THEN ErrorDict(AgentBanner \o join(Comma, acc.errors))
                ELSE [text |-> concat(acc.values),
                      use_memory |-> acc.use_memory,
                      use_notebooklm |-> acc.use_notebooklm,
                      custom_tool_urls |-> acc.custom_tool_urls],
     env |-> acc.env]

\* to_pidgin(segments, file_system, use_notebooklm_flag)
to_pidgin(segments, env, use_notebooklm_flag) ==
    Returned(SegmentLoop(segments, 1,
                 [env |-> env, values |-> <<>>, errors |-> <<>>,
                  use_memory |-> FALSE, use_notebooklm |-> use_notebooklm_flag,
                  custom_tool_urls |-> <<>>]))

---------------------------------------------------------------------------
(* The values the calls of a session are made with.                        *)

SeqsUpTo(S, n) == UNION {[1..k -> S] : k \in 0..n}

TextA == <<"a">>
DanglingPath == <<"/","m","n","t","/","m","i","s","s","i","n","g",".","t","x","t">>
ReportName == <<"r","e","p","o","r","t",".","m","d">>
BundlePath == MountPrefix \o <<"b","u","n","d","l","e">>
ReportText == <<"#"," ","M","y"," ","R","e","p","o","r","t">>
NotebookUrl == NOTEBOOKLM_URL_PREFIX \o <<"a","b","c","1","2","3">>
BucketHandle == <<"g","s",":","/","/","b","u","c","k","e","t","/","b","l","o","b">>

PartA == [text |-> TextA]
PartAtThreshold == [text |-> Fill(MAX_INLINE_CHARACTER_LENGTH)]
PartOverThreshold == [text |-> Fill(MAX_INLINE_CHARACTER_LENGTH + 1)]
PartDangling == [text |-> FileTag(DanglingPath)]
PartPng == [inlineData |-> [data |-> "img_data", mimeType |-> "image/png"]]
PartJpeg == [inlineData |-> [data |-> "img2", mimeType |-> "image/jpeg"]]
PartNotebook ==
    [storedData |-> [handle |-> NotebookUrl, mimeType |-> "application/x-notebooklm"]]
PartStored ==
    [storedData |-> [handle |-> BucketHandle, mimeType |-> "application/pdf"]]
PartThought == [text |-> TextA, thought |-> TRUE]

\* parts of the content blocks handed to content_to_pidgin_string
BlockParts ==
    {PartA, PartAtThreshold, PartOverThreshold, PartDangling,
     PartPng, PartJpeg, PartNotebook, PartStored}

Blocks == {[parts |-> ps] : ps \in SeqsUpTo(BlockParts, MaxParts)}

\* parts of the lists handed to _merge_text_parts
MergeParts == {PartA, [text |-> <<>>], [text |-> Newline], PartPng, PartThought}

Title == <<"P","h","o","t","o">>
Instance ==
    <<"h","t","t","p","s",":","/","/","e","x","a","m","p","l","e",".",
      "c","o","m","/","r","u","n">>
CustomPath ==
    <<"h","t","t","p","s",":","/","/","e","x","a","m","p","l","e",".",
      "c","o","m","/","t","o","o","l">>
TypeBogus == <<"b","o","g","u","s">>

\* segments of the lists handed to to_pidgin
Segments ==
    {[type |-> TypeText, text |-> <<"H","e","r","e",":"," ">>],
     [type |-> TypeText, text |-> FileTag(DanglingPath)],
     [type |-> TypeText],
     [type |-> TypeAsset, title |-> Title, content |-> [parts |-> <<PartPng>>]],
     [type |-> TypeAsset, content |-> [parts |-> <<PartOverThreshold, PartJpeg>>]],
     [type |-> TypeAsset, title |-> Title, content |-> [parts |-> <<>>]],
     [type |-> TypeAsset, title |-> Title],
     [type |-> TypeInput, title |-> Title, content |-> [parts |-> <<PartA>>]],
     [type |-> TypeInput, title |-> FileTag(DanglingPath),
      content |-> [parts |-> <<PartA>>]],
     [type |-> TypeInput, title |-> Title, content |-> [parts |-> <<>>]],
     [type |-> TypeInput, content |-> [role |-> "user"]],
     [type |-> TypeTool, path |-> ROUTE_TOOL_PATH, title |-> Title,
      instance |-> Instance],
     [type |-> TypeTool, path |-> ROUTE_TOOL_PATH, title |-> Title],
     [type |-> TypeTool, path |-> MEMORY_TOOL_PATH],
     [type |-> TypeTool, path |-> NOTEBOOKLM_TOOL_PATH],
     [type |-> TypeTool, path |-> CustomPath, title |-> Title],
     [type |-> TypeTool],
     [type |-> TypeTool, path |-> ROUTE_TOOL_PATH, title |-> Title,
      instance |-> <<>>],
     [type |-> TypeBogus],
     [type |-> <<>>, text |-> <<"H","e","r","e",":"," ">>],
     [title |-> Title]}

\* pieces of the strings handed to from_pidgin_string
Pieces ==
    {<<"S","e","e",":"," ">>,
     FileTag(MountPrefix \o ReportName),
     FileTag(DanglingPath),
     FileTag(PathFor(1, PartPng)),
     FileTag(BundlePath),
     <<"<","f","i","l","e","\t","s","r","c"," ","="," ",Quote>>
         \o MountPrefix \o ReportName \o <<Quote,"/",">">>,
     <<"<","f","i","l","e"," ","s","r","c","=">> \o DanglingPath \o <<" ","/",">">>,
     LinkTag(<<"/","a","g","e","n","t","s","/","w","r","i","t","e","r">>,
             <<" ","t","h","e"," ","w","r","i","t","e","r"," ">>),
     LinkTag(MountPrefix \o ReportName, <<" ","\t">>),
     ContentTag(DanglingPath, <<"b","o","d","y">>)}

PidginStrings == {concat(ps) : ps \in SeqsUpTo(Pieces, MaxSegments)}

\* the add_part calls content_to_pidgin_string makes for a block
AddPartCalls(content, text_as_files) ==
    LET parts == Get(content, "parts", <<>>)
    IN  Cardinality({i \in 1..Len(parts) :
            IF "text" \in DOMAIN parts[i]
            THEN text_as_files /\ Len(parts[i].text) > MAX_INLINE_CHARACTER_LENGTH
            ELSE ~(/\ "storedData" \in DOMAIN parts[i]
                   /\ startswith(Get(parts[i].storedData, "handle", <<>>),
                                 NOTEBOOKLM_URL_PREFIX))})

\* the add_part calls to_pidgin makes for a segment list
RECURSIVE SegmentAddPartCalls(_)
SegmentAddPartCalls(segments) ==
    IF segments = <<>> THEN 0
    ELSE (IF /\ Get(segments[1], "type", <<>>) \in {TypeAsset, TypeInput}
             /\ ~NoParts(segments[1])
          THEN AddPartCalls(segments[1].content, TRUE) ELSE 0)
         + SegmentAddPartCalls(Tail(segments))

---------------------------------------------------------------------------
(* The session: the caller fills the store directly (as the tests do with  *)
(* fs.write and fs.add_part), makes one translation call, and may decode   *)
(* the text an encoding call returned against the same store.              *)

InSetup == last.fn \in {"init", "write", "add_part", "put"}

Init ==
    /\ fs = EmptyFileSystem
    /\ last = [fn |-> "init"]
    /\ setups = 0
    /\ cycles = 0

\* fs.write("report.md", "# My Report")
Write ==
    /\ InSetup
    /\ setups < MaxSetups
    /\ fs' = fs_write(fs, ReportName, ReportText)
    /\ last' = [fn |-> "write"]
    /\ setups' = setups + 1
    /\ UNCHANGED cycles

\* fs.add_part(part)
SetupAddPart ==
    /\ InSetup
    /\ setups < MaxSetups
    /\ \E part \in {PartPng, PartJpeg} :
           fs' = fs_add_part(fs, part, TRUE).fs
    /\ last' = [fn |-> "add_part"]
    /\ setups' = setups + 1
    /\ UNCHANGED cycles

\* the store comes to hold a file of two parts
SetupBundle ==
    /\ InSetup
    /\ setups < MaxSetups
    /\ fs' = fs_put(fs, BundlePath, <<[text |-> ReportText], PartJpeg>>)
    /\ last' = [fn |-> "put"]
    /\ setups' = setups + 1
    /\ UNCHANGED cycles

\* to_pidgin(segments, fs, use_notebooklm_flag=flag)
ToPidgin ==
    /\ InSetup
    /\ \E segments \in SeqsUpTo(Segments, MaxSegments), flag \in BOOLEAN :
       \E refuse \in SUBSET (1..SegmentAddPartCalls(segments)) :
       \E r \in {to_pidgin(segments, NewEnv(fs, refuse), flag)} :
               /\ fs' = r.env.fs
               /\ last' = [fn |-> "to_pidgin", segments |-> segments,
                           flag |-> flag, before |-> fs, result |-> r.result,
                           adds |-> r.env.adds, routes |-> r.env.routes]
    /\ UNCHANGED <<setups, cycles>>

\* content_to_pidgin_string(content, fs, text_as_files=text_as_files)
ContentToPidginString ==
    /\ InSetup
    /\ \E content \in Blocks, text_as_files \in BOOLEAN :
       \E refuse \in SUBSET (1..AddPartCalls(content, text_as_files)) :
       \E r \in {content_to_pidgin_string(content, NewEnv(fs, refuse), text_as_files)} :
               /\ fs' = r.env.fs
               /\ last' = [fn |-> "content_to_pidgin_string", content |-> content,
                           text_as_files |-> text_as_files, before |-> fs,
                           result |-> r.text, adds |-> r.env.adds]
    /\ UNCHANGED <<setups, cycles>>

\* from_pidgin_string(content, fs)
FromPidginString ==
    /\ InSetup
    /\ \E content \in PidginStrings :
       \E r \in {from_pidgin_string(content, fs)} :
               last' = [fn |-> "from_pidgin_string", content |-> content,
                        result |-> r.result, gets |-> r.gets, raw |-> r.raw]
    /\ UNCHANGED <<fs, setups, cycles>>

\* _merge_text_parts(parts)
MergeTextParts ==
    /\ InSetup
    /\ \E parts \in SeqsUpTo(MergeParts, MaxMergeLen) :
           last' = [fn |-> "_merge_text_parts", parts |-> parts,
                    result |-> _merge_text_parts(parts),
                    objects |-> MergeObjects(parts, 1,
                                             [heap |-> parts, merged |-> <<>>],
                                             Newline)]
    /\ UNCHANGED <<fs, setups, cycles>>

\* the text an encoding call returned
EncodedText(call) ==
    IF call.fn = "to_pidgin" THEN call.result.text ELSE call.result

\* from_pidgin_string(encoded text, fs) after a successful encoding call
DecodeEncoded ==
    /\ \/ last.fn = "content_to_pidgin_string"
       \/ last.fn = "to_pidgin" /\ ~IsErrorDict(last.result)
    /\ \E r \in {from_pidgin_string(EncodedText(last), fs)} :
           last' = [fn |-> "round_trip", encoded |-> last,
                    result |-> r.result, gets |-> r.gets, raw |-> r.raw]
    /\ UNCHANGED <<fs, setups, cycles>>

Next ==
    \/ Write
    \/ SetupAddPart
    \/ SetupBundle
    \/ ToPidgin
    \/ ContentToPidginString
    \/ FromPidginString
    \/ MergeTextParts
    \/ DecodeEncoded

Spec == Init /\ [][Next]_vars

---------------------------------------------------------------------------
(* Vocabulary of the properties.                                           *)

IsInlineData(part) == "inlineData" \in DOMAIN part
IsTextPart(part) == "text" \in DOMAIN part
IsNotebook(part) ==
    /\ "storedData" \in DOMAIN part
    /\ startswith(Get(part.storedData, "handle", <<>>), NOTEBOOKLM_URL_PREFIX)

AllAccepted(adds) == \A k \in DOMAIN adds : adds[k].ok

IsEncoding(call) == call.fn \in {"to_pidgin", "content_to_pidgin_string"}
IsDecoding(call) == call.fn \in {"from_pidgin_string", "round_trip"}

\* the string a decoding call was made with
DecodedText(call) ==
    IF call.fn = "round_trip" THEN EncodedText(call.encoded) ELSE call.content

\* p1, newline, p2, newline, ..., pn
RECURSIVE Interleaved(_)
Interleaved(parts) ==
    IF Len(parts) <= 1 THEN parts
    ELSE <<parts[1], [text |-> Newline]>> \o Interleaved(Tail(parts))

IsData(part) == ~IsPureText(part)

---------------------------------------------------------------------------
(* C1.  Round trip of a block of inline-data parts through                 *)
(* content_to_pidgin_string and from_pidgin_string, against a store whose  *)
(* add_part succeeds.                                                      *)

InlineRoundTrip ==
    /\ last.fn = "round_trip"
    /\ last.encoded.fn = "content_to_pidgin_string"
    /\ \A i \in DOMAIN last.encoded.content.parts :
           IsInlineData(last.encoded.content.parts[i])
    /\ AllAccepted(last.encoded.adds)

\* C1 as claimed: the decoded part list equals the block's parts, with no
\* part added or missing.
C1_RoundTripExact ==
    InlineRoundTrip =>
        /\ ~IsErrorDict(last.result)
        /\ last.result.parts = last.encoded.content.parts

\* C1 as amended: the decoded list holds the block's parts, same values and
\* order, none missing, separated by one text part "\n" between each two
\* neighbours (the newline the encoder joins its fragments with); a block of
\* at most one part round-trips exactly.
C1_RoundTripInterleaved ==
    InlineRoundTrip =>
        /\ ~IsErrorDict(last.result)
        /\ last.result.parts = Interleaved(last.encoded.content.parts)
        /\ SelectSeq(last.result.parts, IsData) = last.encoded.content.parts

C1_Witness ==
    /\ InlineRoundTrip
    /\ Len(last.encoded.content.parts) = 2
    /\ Len(last.result.parts) = 3

---------------------------------------------------------------------------
(* C3.  Asset and input segments without parts.                            *)

SegmentType(segment) == Get(segment, "type", <<>>)

EmptyAsset(segment) == SegmentType(segment) = TypeAsset /\ NoParts(segment)
EmptyInput(segment) == SegmentType(segment) = TypeInput /\ NoParts(segment)
RouteWithoutInstance(segment) ==
    /\ SegmentType(segment) = TypeTool
    /\ Get(segment, "path", <<>>) = ROUTE_TOOL_PATH
    /\ Get(segment, "instance", <<>>) = <<>>
UnknownType(segment) ==
    SegmentType(segment) \notin {<<>>, TypeText, TypeAsset, TypeInput, TypeTool}

\* the segments for which to_pidgin appends to errors
Malformed(segment) ==
    EmptyAsset(segment) \/ RouteWithoutInstance(segment) \/ UnknownType(segment)

\* C3 as claimed: an asset or input segment without parts makes to_pidgin
\* return an error.
C3_EmptyAssetOrInputErrors ==
    (/\ last.fn = "to_pidgin"
     /\ \E i \in DOMAIN last.segments :
            EmptyAsset(last.segments[i]) \/ EmptyInput(last.segments[i]))
        => IsErrorDict(last.result)

\* C3 as amended: an asset segment without parts adds the error 'Invalid
\* asset format' and scanning continues (the later segments still make
\* their store calls), so the call returns an error whatever the other
\* segments are; an input segment without parts is skipped silently: it
\* adds no error and no text, and alone it never makes the call fail.
C3_EmptyAssetErrorsEmptyInputSkipped ==
    last.fn = "to_pidgin" =>
        /\ (\E i \in DOMAIN last.segments : EmptyAsset(last.segments[i]))
               => /\ IsErrorDict(last.result)
                  /\ Contains(last.result[ErrorKey], InvalidAssetFormat)
        /\ Len(last.adds) = SegmentAddPartCalls(last.segments)
        /\ IsErrorDict(last.result)
               => \E i \in DOMAIN last.segments : Malformed(last.segments[i])
        /\ (\A i \in DOMAIN last.segments : EmptyInput(last.segments[i]))
               => /\ last.result = [text |-> <<>>, use_memory |-> FALSE,
                                    use_notebooklm |-> last.flag,
                                    custom_tool_urls |-> <<>>]
                  /\ fs = last.before

C3_Witness ==
    /\ last.fn = "to_pidgin"
    /\ Len(last.segments) = 2
    /\ EmptyAsset(last.segments[1])
    /\ Len(last.adds) = 1
    /\ IsErrorDict(last.result)

C3_WitnessInput ==
    /\ last.fn = "to_pidgin"
    /\ Len(last.segments) = 2
    /\ EmptyInput(last.segments[1])
    /\ EmptyInput(last.segments[2])
    /\ ~IsErrorDict(last.result)

---------------------------------------------------------------------------
(* C4.  Error batching in to_pidgin.                                       *)

\* the error a segment contributes, as a list of at most one description
Description(segment) ==
    IF EmptyAsset(segment) THEN <<InvalidAssetFormat>>
    ELSE IF RouteWithoutInstance(segment) THEN <<MalformedRoute>>
    ELSE IF UnknownType(segment) THEN <<UnknownSegmentType \o SegmentType(segment)>>
    ELSE <<>>

RECURSIVE Descriptions(_)
Descriptions(segments) ==
    IF segments = <<>> THEN <<>>
    ELSE Description(segments[1]) \o Descriptions(Tail(segments))

\* C4: with a malformed segment, to_pidgin returns one error value: the
\* banner followed by the descriptions of all malformed segments in segment
\* order joined by commas, and nothing else; without one it returns a
\* ToPidginResult.
C4_ErrorBatching ==
    last.fn = "to_pidgin" =>
        IF Descriptions(last.segments) = <<>>
        THEN DOMAIN last.result =
                 {"text", "use_memory", "use_notebooklm", "custom_tool_urls"}
        ELSE /\ DOMAIN last.result = {ErrorKey}
             /\ last.result[ErrorKey] =
                    AgentBanner \o join(Comma, Descriptions(last.segments))

C4_Witness ==
    /\ last.fn = "to_pidgin"
    /\ Len(Descriptions(last.segments)) = 2
    /\ Descriptions(last.segments)[1] # Descriptions(last.segments)[2]
    /\ IsErrorDict(last.result)

---------------------------------------------------------------------------
(* C5.  Errors of from_pidgin_string.                                      *)

\* the src of the file tokens among tokens, in order
RECURSIVE TokenPaths(_)
TokenPaths(tokens) ==
    IF tokens = <<>> THEN <<>>
    ELSE (IF match(_FILE_PARSE_REGEX, tokens[1]).end # 0
          THEN <<match(_FILE_PARSE_REGEX, tokens[1]).groups[1]>>
          ELSE <<>>) \o TokenPaths(Tail(tokens))

\* what fs.get answers for the paths the store does not hold, in order
RECURSIVE Failures(_, _)
Failures(paths, store) ==
    IF paths = <<>> THEN <<>>
    ELSE (IF paths[1] \in Paths(store) THEN <<>>
          ELSE <<fs_get(store, paths[1]).value[ErrorKey]>>)
         \o Failures(Tail(paths), store)

FileOpen == <<"<","f","i","l","e">>

\* C5: from_pidgin_string returns an error exactly when the handle of some
\* file token does not resolve; the message joins every failure in token
\* order with commas and no parts come with it; text without file tags,
\* the empty string included, never errors.
C5_DecodeErrors ==
    IsDecoding(last) =>
        /\ last.gets = TokenPaths(split(DecodedText(last)))
        /\ IF Failures(last.gets, fs) = <<>>
           THEN /\ DOMAIN last.result = {"parts", "role"}
                /\ last.result.role = "user"
           ELSE /\ DOMAIN last.result = {ErrorKey}
                /\ last.result[ErrorKey] =
                       UnableToProceed \o join(Comma, Failures(last.gets, fs))
        /\ ~Contains(DecodedText(last), FileOpen) => ~IsErrorDict(last.result)
        /\ DecodedText(last) = <<>>
               => last.result = [parts |-> <<>>, role |-> "user"]

C5_Witness ==
    /\ last.fn = "from_pidgin_string"
    /\ Len(last.gets) = 2
    /\ Len(Failures(last.gets, fs)) = 2
    /\ IsErrorDict(last.result)

---------------------------------------------------------------------------
(* C6.  The part list of a successful from_pidgin_string.                  *)

\* the texts of a list of text parts
Texts(parts) == [i \in DOMAIN parts |-> parts[i].text]

\* C6: no two neighbours of the returned list are pure-text parts; a list
\* of pure-text parts only comes back as one part, joined by newlines; the
\* parts with a key besides text come back unchanged and in order, and a
\* text, a data part and a text come back as three parts.
C6_NoAdjacentText ==
    (IsDecoding(last) /\ ~IsErrorDict(last.result)) =>
        /\ \A i \in 1..(Len(last.result.parts) - 1) :
               ~(IsPureText(last.result.parts[i])
                     /\ IsPureText(last.result.parts[i + 1]))
        /\ SelectSeq(last.result.parts, IsData) = SelectSeq(last.raw, IsData)
        /\ (last.raw # <<>> /\ \A i \in DOMAIN last.raw : IsPureText(last.raw[i]))
               => last.result.parts = <<[text |-> join(Newline, Texts(last.raw))]>>
        /\ (/\ Len(last.raw) = 3
            /\ IsPureText(last.raw[1])
            /\ IsData(last.raw[2])
            /\ IsPureText(last.raw[3]))
               => last.result.parts = last.raw

C6_Witness ==
    /\ IsDecoding(last)
    /\ ~IsErrorDict(last.result)
    /\ Len(last.raw) = 3
    /\ IsPureText(last.raw[1])
    /\ IsData(last.raw[2])
    /\ IsPureText(last.raw[3])
    /\ Len(last.result.parts) = 3

C6_WitnessMerged ==
    /\ IsDecoding(last)
    /\ ~IsErrorDict(last.result)
    /\ Len(last.raw) = 2
    /\ Len(last.result.parts) = 1

---------------------------------------------------------------------------
(* C7.  Idempotence of _merge_text_parts.                                  *)

\* C7: merging a merged list again changes nothing.
C7_MergeIdempotent ==
    /\ last.fn = "_merge_text_parts"
           => _merge_text_parts(last.result) = last.result
    /\ (IsDecoding(last) /\ ~IsErrorDict(last.result))
           => _merge_text_parts(last.result.parts) = last.result.parts

C7_Witness ==
    /\ last.fn = "_merge_text_parts"
    /\ Len(last.parts) = 3
    /\ Len(last.result) = 1

---------------------------------------------------------------------------
(* C8, C9.  What content_to_pidgin_string emits for each part.             *)

Over(part) == Len(part.text) > MAX_INLINE_CHARACTER_LENGTH

\* the parts content_to_pidgin_string hands to add_part
Registers(part, text_as_files) ==
    IF IsTextPart(part) THEN text_as_files /\ Over(part) ELSE ~IsNotebook(part)

\* the number of parts among the first i that are handed to add_part
Rank(parts, i, text_as_files) ==
    Cardinality({j \in 1..i : Registers(parts[j], text_as_files)})

\* the fragment expected for part i when the store accepts every part
Expected(parts, i, adds) ==
    IF IsTextPart(parts[i])
    THEN IF Over(parts[i])
         THEN <<"<","c","o","n","t","e","n","t"," ","s","r","c","=",Quote>>
                  \o adds[Rank(parts, i, TRUE)].value \o <<Quote,">","\n">>
                  \o parts[i].text
                  \o <<"<","/","c","o","n","t","e","n","t",">">>
         ELSE parts[i].text
    ELSE IF IsNotebook(parts[i]) THEN parts[i].storedData.handle
    ELSE FileTag(adds[Rank(parts, i, TRUE)].value)

\* C8: with text_as_files and a store that accepts every part, a text part
\* of at most 1000 characters is emitted as it is and not registered; a
\* longer text part is registered once and emitted as the content tag with
\* the handle, a newline, the full text and the closing tag.
C8_ThresholdBoundary ==
    (/\ last.fn = "content_to_pidgin_string"
     /\ last.text_as_files
     /\ AllAccepted(last.adds)) =>
        /\ Len(last.adds) = Rank(last.content.parts, Len(last.content.parts), TRUE)
        /\ \A i \in DOMAIN last.content.parts :
               Registers(last.content.parts[i], TRUE)
                   => last.adds[Rank(last.content.parts, i, TRUE)].part
                          = last.content.parts[i]
        /\ last.result =
               join(Newline, [i \in DOMAIN last.content.parts |->
                                 Expected(last.content.parts, i, last.adds)])

C8_Witness ==
    /\ last.fn = "content_to_pidgin_string"
    /\ last.text_as_files
    /\ last.content.parts = <<PartAtThreshold, PartOverThreshold>>
    /\ Len(last.adds) = 1
    /\ last.adds[1].ok
    /\ Len(last.result) > 2 * MAX_INLINE_CHARACTER_LENGTH + 1

\* C9: a stored-data part whose handle starts with the NotebookLM prefix is
\* never handed to add_part and its handle stands in the returned text; a
\* block of such parts only returns the handles joined by newlines, without
\* a file tag, and leaves the store as it was.
C9_NotebookPassthrough ==
    last.fn = "content_to_pidgin_string" =>
        /\ \A k \in DOMAIN last.adds : ~IsNotebook(last.adds[k].part)
        /\ \A i \in DOMAIN last.content.parts :
               IsNotebook(last.content.parts[i])
                   => Contains(last.result, last.content.parts[i].storedData.handle)
        /\ (\A i \in DOMAIN last.content.parts : IsTextPart(last.content.parts[i]) = FALSE)
               => Len(TokenPaths(split(last.result)))
                      = Cardinality({k \in DOMAIN last.adds : last.adds[k].ok})
        /\ (\A i \in DOMAIN last.content.parts : IsNotebook(last.content.parts[i]))
               => /\ last.result =
                         join(Newline, [i \in DOMAIN last.content.parts |->
                                           last.content.parts[i].storedData.handle])
                  /\ last.adds = <<>>
                  /\ fs = last.before

C9_Witness ==
    /\ last.fn = "content_to_pidgin_string"
    /\ last.content.parts = <<PartNotebook, PartStored>>
    /\ Len(last.adds) = 1
    /\ last.adds[1].ok
    /\ last.result = NotebookUrl \o Newline \o FileTag(last.adds[1].value)

---------------------------------------------------------------------------
(* C10.  The handles in encoded text.                                      *)

\* the string of a part that reaches the text unchanged, if any
PartString(part) ==
    IF IsTextPart(part) THEN part.text
    ELSE IF IsNotebook(part) THEN part.storedData.handle
    ELSE <<>>

\* the strings of a block that come from the caller
BlockStrings(content) ==
    {PartString(Get(content, "parts", <<>>)[i]) :
        i \in DOMAIN Get(content, "parts", <<>>)}

\* a string without the character that opens a tag
TagFree(s) == \A i \in DOMAIN s : s[i] # "<"

\* the strings of an encoding call that come from the caller
CallerStrings(call) ==
    IF call.fn = "content_to_pidgin_string" THEN BlockStrings(call.content)
    ELSE UNION {{Get(call.segments[i], "text", <<>>),
                 Get(call.segments[i], "title", <<>>)}
                    \cup BlockStrings(Get(call.segments[i], "content", <<>>)) :
                i \in DOMAIN call.segments}

\* the handles the store issued for the parts emitted as file tags
RECURSIVE IssuedFileHandles(_)
IssuedFileHandles(adds) ==
    IF adds = <<>> THEN <<>>
    ELSE (IF adds[1].ok /\ ~IsTextPart(adds[1].part) THEN <<adds[1].value>>
          ELSE <<>>) \o IssuedFileHandles(Tail(adds))

\* C10 as claimed: decoding the text an encoding call returned never
\* returns an error, whatever the text segments, text parts and titles.
C10_EncodedTextDecodes ==
    last.fn = "round_trip" => ~IsErrorDict(last.result)

\* C10 as amended: every handle the store issued during the encoding call
\* resolves to the part it was issued for; when no text segment, text
\* part, title or NotebookLM handle supplied by the caller contains the
\* character that opens a tag, the decoder resolves exactly the handles
\* issued for the file tags, in order, and returns no error.
C10_IssuedHandlesResolve ==
    last.fn = "round_trip" =>
        /\ \A k \in DOMAIN last.encoded.adds :
               last.encoded.adds[k].ok
                   => fs_get(fs, last.encoded.adds[k].value)
                          = [ok |-> TRUE, value |-> <<last.encoded.adds[k].part>>]
        /\ (\A s \in CallerStrings(last.encoded) : TagFree(s))
               => /\ last.gets = IssuedFileHandles(last.encoded.adds)
                  /\ ~IsErrorDict(last.result)

C10_Witness ==
    /\ last.fn = "round_trip"
    /\ last.encoded.fn = "to_pidgin"
    /\ Len(last.gets) = 2
    /\ last.gets = IssuedFileHandles(last.encoded.adds)
    /\ ~IsErrorDict(last.result)

---------------------------------------------------------------------------
(* C2.  Repeated cycles: a block is encoded with text_as_files and decoded *)
(* against the same store, and the decoded parts are encoded again.        *)

\* from_pidgin_string(content_to_pidgin_string(content, fs), fs), recorded
\* with the block the cycles started from
CycleOf(parts, store) ==
    \E encoded \in {content_to_pidgin_string([parts |-> parts],
                                             NewEnv(store, {}), TRUE)} :
    \E decoded \in {from_pidgin_string(encoded.text, encoded.env.fs)} :
        /\ fs' = encoded.env.fs
        /\ last' = [fn |-> "cycle",
                    start |-> IF last.fn = "cycle" THEN last.start ELSE parts,
                    parts |-> parts,
                    result |-> decoded.result]

\* the first cycle, on a block of the caller
BeginCycle ==
    /\ InSetup
    /\ \E content \in Blocks : CycleOf(content.parts, fs)
    /\ cycles' = 1
    /\ UNCHANGED setups

\* the next cycle, on the parts the previous one returned
Cycle ==
    /\ last.fn = "cycle"
    /\ ~IsErrorDict(last.result)
    /\ cycles < MaxCycles
    /\ CycleOf(last.result.parts, fs)
    /\ cycles' = cycles + 1
    /\ UNCHANGED setups

NextCycle ==
    \/ Write
    \/ SetupAddPart
    \/ SetupBundle
    \/ BeginCycle
    \/ Cycle

SpecCycle == Init /\ [][NextCycle]_vars

\* C2: repeated cycles reach a part list that the next cycle leaves
\* unchanged; here, by the last cycle the bound allows.
C2_CyclesConverge ==
    (last.fn = "cycle" /\ cycles = MaxCycles /\ ~IsErrorDict(last.result))
        => last.result.parts = last.parts

\* the parts that are emitted as file tags
IsFilePart(part) == ~IsTextPart(part) /\ ~IsNotebook(part)

RECURSIVE TextLength(_)
TextLength(parts) ==
    IF parts = <<>> THEN 0
    ELSE (IF IsTextPart(parts[1]) THEN Len(parts[1].text) ELSE 0)
         + TextLength(Tail(parts))

\* a block with two or more parts emitted as file tags, or with a text part
\* over the threshold, is never left unchanged: every cycle returns more
\* text than it was given
C2_EveryCycleGrows ==
    (/\ last.fn = "cycle"
     /\ ~IsErrorDict(last.result)
     /\ \/ Len(SelectSeq(last.start, IsFilePart)) >= 2
        \/ \E i \in DOMAIN last.start :
               IsTextPart(last.start[i]) /\ Over(last.start[i]))
        => TextLength(last.result.parts) > TextLength(last.parts)

C2_Diverged ==
    /\ last.fn = "cycle"
    /\ cycles = MaxCycles
    /\ last.start = <<PartPng, PartJpeg>>
    /\ last.result.parts # last.parts

---------------------------------------------------------------------------
(* C11.  The order in which from_pidgin_string processes its tokens.       *)

\* the parts a token stands for
Contribution(token, store) ==
    IF match(_FILE_PARSE_REGEX, token).end # 0
    THEN IF match(_FILE_PARSE_REGEX, token).groups[1] \in Paths(store)
         THEN store.files[match(_FILE_PARSE_REGEX, token).groups[1]]
         ELSE <<>>
    ELSE IF match(_LINK_PARSE_REGEX, token).end # 0
    THEN <<[text |-> strip(match(_LINK_PARSE_REGEX, token).groups[2])]>>
    ELSE IF token # <<>> THEN <<[text |-> token]>>
    ELSE <<>>

RECURSIVE Contributions(_, _)
Contributions(tokens, store) ==
    IF tokens = <<>> THEN <<>>
    ELSE Contribution(tokens[1], store) \o Contributions(Tail(tokens), store)

SeeText == <<"S","e","e",":"," ">>

\* C11: the tokens are the input string cut in place, and the part list
\* before merging is what the tokens stand for, token after token: every
\* part the store holds under a file token's handle, in the store's order,
\* the trimmed title of a link, the literal text in between; text A before
\* a file tag that resolves to the one text part X gives the one part
\* A, newline, X.
C11_DecoderOrder ==
    IsDecoding(last) =>
        /\ concat(split(DecodedText(last))) = DecodedText(last)
        /\ ~IsErrorDict(last.result)
               => last.raw = Contributions(split(DecodedText(last)), fs)
        /\ (/\ DecodedText(last) = SeeText \o FileTag(MountPrefix \o ReportName)
            /\ (MountPrefix \o ReportName) \in Paths(fs))
               => last.result =
                      [parts |-> <<[text |-> SeeText \o Newline \o ReportText]>>,
                       role |-> "user"]

C11_Witness ==
    /\ last.fn = "from_pidgin_string"
    /\ last.content = FileTag(BundlePath) \o SeeText
    /\ last.result = [parts |-> <<[text |-> ReportText], PartJpeg,
                                  [text |-> SeeText]>>,
                      role |-> "user"]

---------------------------------------------------------------------------
(* C12.  Link tokens.                                                      *)

LinkOpen == <<"<","a"," ","h","r","e","f","=",Quote>>
LinkClose == <<"<","/","a",">">>

\* a token written as a link tag
IsLinkTag(token) ==
    /\ startswith(token, LinkOpen)
    /\ StartsWithAt(token, Len(token) - Len(LinkClose) + 1, LinkClose)

\* the text between the quotes of the link tag
Href(token) ==
    SubSeq(token, Len(LinkOpen) + 1, NextIn(token, Len(LinkOpen) + 1, {Quote}) - 1)

\* the text between the opening and the closing tag
LinkTitle(token) ==
    SubSeq(token, NextIn(token, 1, {">"}) + 1, Len(token) - Len(LinkClose))

\* the number of parts the tokens before token k stand for
Offset(tokens, k, store) == Len(Contributions(SubSeq(tokens, 1, k - 1), store))

\* C12: a link token gives exactly one plain text part, the title without
\* its surrounding whitespace (the empty text when nothing is left), at
\* the token's place; its href is never handed to fs.get and is in no
\* returned text.
C12_LinkTitle ==
    IsDecoding(last) =>
        \A tokens \in {split(DecodedText(last))} :
        \A k \in DOMAIN tokens :
            IsLinkTag(tokens[k]) =>
                /\ ~IsErrorDict(last.result)
                       => /\ last.raw[Offset(tokens, k, fs) + 1]
                                 = [text |-> strip(LinkTitle(tokens[k]))]
                          /\ Offset(tokens, k + 1, fs) = Offset(tokens, k, fs) + 1
                          /\ \A i \in DOMAIN last.result.parts :
                                 IsTextPart(last.result.parts[i])
                                     => ~Contains(last.result.parts[i].text,
                                                  Href(tokens[k]))
                /\ ~Contains(DecodedText(last), FileOpen) => last.gets = <<>>
                /\ Len(last.gets) = Len(TokenPaths(tokens))

C12_Witness ==
    /\ last.fn = "from_pidgin_string"
    /\ (MountPrefix \o ReportName) \in Paths(fs)
    /\ last.content = LinkTag(MountPrefix \o ReportName, <<" ","\t">>)
    /\ last.gets = <<>>
    /\ last.result = [parts |-> <<[text |-> <<>>]>>, role |-> "user"]

---------------------------------------------------------------------------
(* C13.  Where the returned parts come from.                               *)

\* the parts the store holds under the handles handed to fs.get
Resolved(gets, store) ==
    UNION {{store.files[gets[i]][j] : j \in DOMAIN store.files[gets[i]]} :
              i \in {k \in DOMAIN gets : gets[k] \in Paths(store)}}

\* text that stands in the input as it is
Literal(text, input) == text = <<>> \/ Contains(input, text)

\* a part taken from the store or made of text of the input
IsSource(part, input, gets, store) ==
    \/ part \in Resolved(gets, store)
    \/ IsPureText(part) /\ Literal(part.text, input)

\* a text part made of the pure-text parts a..b of parts, joined by newlines
IsJoinOf(part, parts, a, b) ==
    /\ \A j \in a..b : IsPureText(parts[j])
    /\ part.text = join(Newline, [j \in 1..(b - a + 1) |-> parts[a + j - 1].text])

\* C13 as claimed: every returned part is literal text of the input, a part
\* the store returned for a file handle, or the title of a link.
C13_PartsAreSources ==
    (IsDecoding(last) /\ ~IsErrorDict(last.result)) =>
        \A i \in DOMAIN last.result.parts :
            IsSource(last.result.parts[i], DecodedText(last), last.gets, fs)

\* C13 as amended: every part collected before merging is literal text of
\* the input, a part the store returned for a file handle of the input, or
\* the trimmed title of a link; every returned part is a part the store
\* returned, or a text part that joins one or more neighbouring collected
\* texts with newlines.
C13_PartsAreJoinedSources ==
    (IsDecoding(last) /\ ~IsErrorDict(last.result)) =>
        /\ \A j \in DOMAIN last.raw :
               IsSource(last.raw[j], DecodedText(last), last.gets, fs)
        /\ \A i \in DOMAIN last.result.parts :
               \/ /\ IsData(last.result.parts[i])
                  /\ last.result.parts[i] \in Resolved(last.gets, fs)
               \/ /\ IsPureText(last.result.parts[i])
                  /\ \E a \in DOMAIN last.raw : \E b \in a..Len(last.raw) :
                         IsJoinOf(last.result.parts[i], last.raw, a, b)

C13_Witness ==
    /\ last.fn = "from_pidgin_string"
    /\ last.content = SeeText \o FileTag(BundlePath)
    /\ last.result = [parts |-> <<[text |-> SeeText \o Newline \o ReportText],
                                  PartJpeg>>,
                      role |-> "user"]

---------------------------------------------------------------------------
(* C14.  Content tags in the decoder.                                      *)

\* the places of text where a file tag can begin
FileOpens(text) ==
    {i \in DOMAIN text : text[i] = "<" /\ StartsWithAt(text, i, FileOpen)}

\* some returned text part has tag in it
CarriedThrough(tag, parts) ==
    \E i \in DOMAIN parts : IsTextPart(parts[i]) /\ Contains(parts[i].text, tag)

\* C14: a content tag is no token: fs.get is called only where a file tag
\* begins, so never for the src of a content tag; text without file and
\* link tags comes back as one text part, content tags and bodies
\* included; and the content tags the encoder wrote are in the decoded
\* text with their bodies.
C14_ContentTagIsText ==
    IsDecoding(last) =>
        /\ Len(last.gets) <= Cardinality(FileOpens(DecodedText(last)))
        /\ (/\ DecodedText(last) # <<>>
            /\ ~Contains(DecodedText(last), FileOpen)
            /\ ~Contains(DecodedText(last), <<"<","a">>))
               => /\ last.gets = <<>>
                  /\ last.result = [parts |-> <<[text |-> DecodedText(last)]>>,
                                    role |-> "user"]
        /\ (last.fn = "round_trip" /\ ~IsErrorDict(last.result))
               => \A k \in DOMAIN last.encoded.adds :
                      (last.encoded.adds[k].ok /\ IsTextPart(last.encoded.adds[k].part))
                          => CarriedThrough(ContentTag(last.encoded.adds[k].value,
                                                       last.encoded.adds[k].part.text),
                                            last.result.parts)
        /\ (/\ last.fn = "from_pidgin_string"
            /\ ~IsErrorDict(last.result)
            /\ Contains(last.content, ContentTag(DanglingPath, <<"b","o","d","y">>)))
               => CarriedThrough(ContentTag(DanglingPath, <<"b","o","d","y">>),
                                 last.result.parts)

C14_Witness ==
    /\ last.fn = "round_trip"
    /\ last.encoded.fn = "content_to_pidgin_string"
    /\ last.encoded.content.parts = <<PartOverThreshold>>
    /\ Len(last.encoded.adds) = 1
    /\ last.encoded.adds[1].ok
    /\ last.encoded.adds[1].value \in Paths(fs)
    /\ last.gets = <<>>
    /\ last.result =
           [parts |-> <<[text |-> ContentTag(last.encoded.adds[1].value,
                                             PartOverThreshold.text)]>>,
            role |-> "user"]

---------------------------------------------------------------------------
(* C15.  Unknown and missing segment types.                                *)

Untyped(segment) == SegmentType(segment) = <<>>
Typed(segment) == ~Untyped(segment)

\* the ordinals of the add_part calls the store refused
Refused(adds) == {k \in DOMAIN adds : ~adds[k].ok}

\* C15: a segment with a non-empty type other than text, asset, input and
\* tool makes the call fail with 'Unknown segment type: ' and the type in
\* the message; a segment without a type or with the empty type is skipped:
\* the call returns what it returns without that segment, and a list of
\* such segments only succeeds with empty text and no store call.
C15_TypeAsymmetry ==
    last.fn = "to_pidgin" =>
        /\ \A i \in DOMAIN last.segments :
               UnknownType(last.segments[i])
                   => /\ IsErrorDict(last.result)
                      /\ Contains(last.result[ErrorKey],
                                  UnknownSegmentType \o SegmentType(last.segments[i]))
        /\ (\A i \in DOMAIN last.segments : Untyped(last.segments[i]))
               => /\ last.result = [text |-> <<>>, use_memory |-> FALSE,
                                    use_notebooklm |-> last.flag,
                                    custom_tool_urls |-> <<>>]
                  /\ last.adds = <<>>
                  /\ last.routes = <<>>
                  /\ fs = last.before
        /\ last.result =
               to_pidgin(SelectSeq(last.segments, Typed),
                         NewEnv(last.before, Refused(last.adds)), last.flag).result

C15_Witness ==
    /\ last.fn = "to_pidgin"
    /\ Len(last.segments) = 2
    /\ Untyped(last.segments[1])
    /\ "text" \in DOMAIN last.segments[1]
    /\ last.segments[2] = [type |-> TypeBogus]
    /\ last.result = ErrorDict(AgentBanner \o UnknownSegmentType \o TypeBogus)

C15_WitnessSkipped ==
    /\ last.fn = "to_pidgin"
    /\ Len(last.segments) = 2
    /\ \A i \in DOMAIN last.segments : Untyped(last.segments[i])
    /\ ~IsErrorDict(last.result)

---------------------------------------------------------------------------
(* C16.  Routing tool segments.                                            *)

IsTool(segment, path) ==
    SegmentType(segment) = TypeTool /\ Get(segment, "path", <<>>) = path

HasRoute(segment) ==
    IsTool(segment, ROUTE_TOOL_PATH) /\ Get(segment, "instance", <<>>) # <<>>

IsBlock(segment) == SegmentType(segment) \in {TypeAsset, TypeInput}

\* the number of segments with a route among the first i
RouteRank(segments, i) == Cardinality({j \in 1..i : HasRoute(segments[j])})

\* what a segment that is no asset and no input puts into the text, given
\* the add_route calls of the whole call
Fragment(segments, i, routes) ==
    IF SegmentType(segments[i]) = TypeText THEN Get(segments[i], "text", <<>>)
    ELSE IF HasRoute(segments[i])
    THEN <<"<","a"," ","h","r","e","f","=",Quote>>
             \o routes[RouteRank(segments, i)].value \o <<Quote,">">>
             \o Get(segments[i], "title", <<>>) \o <<"<","/","a",">">>
    ELSE IF IsTool(segments[i], MEMORY_TOOL_PATH)
    THEN <<"U","s","e"," ","M","e","m","o","r","y">>
    ELSE IF IsTool(segments[i], NOTEBOOKLM_TOOL_PATH)
    THEN <<"U","s","e"," ","N","o","t","e","b","o","o","k","L","M">>
    ELSE <<>>

MissingInstanceParam ==
    <<"m","i","s","s","i","n","g"," ","i","n","s","t","a","n","c","e"," ",
      "p","a","r","a","m">>

\* C16: add_route is called once for every routing segment with an
\* instance, with that instance and in segment order, and for no other
\* segment; a routing segment without instance, or with an empty one, puts
\* 'Malformed route, missing instance param' in the error; on success the
\* link with the returned token and the title stands at the segment's place.
C16_RouteSegments ==
    last.fn = "to_pidgin" =>
        /\ [k \in DOMAIN last.routes |-> last.routes[k].instance]
               = [k \in DOMAIN SelectSeq(last.segments, HasRoute) |->
                     SelectSeq(last.segments, HasRoute)[k].instance]
        /\ fs.routes = last.before.routes
                           \o [k \in DOMAIN last.routes |-> last.routes[k].instance]
        /\ \A i \in DOMAIN last.segments :
               RouteWithoutInstance(last.segments[i])
                   => /\ IsErrorDict(last.result)
                      /\ Contains(last.result[ErrorKey],
                                  <<"M","a","l","f","o","r","m","e","d"," ",
                                    "r","o","u","t","e">>)
                      /\ Contains(last.result[ErrorKey], MissingInstanceParam)
        /\ (/\ ~IsErrorDict(last.result)
            /\ \A i \in DOMAIN last.segments : ~IsBlock(last.segments[i]))
               => last.result.text =
                      concat([i \in DOMAIN last.segments |->
                                 Fragment(last.segments, i, last.routes)])

C16_Witness ==
    /\ last.fn = "to_pidgin"
    /\ Len(last.segments) = 2
    /\ HasRoute(last.segments[1])
    /\ HasRoute(last.segments[2])
    /\ Len(last.before.routes) = 0
    /\ last.routes[1].value # last.routes[2].value
    /\ last.result.text = LinkTag(last.routes[1].value, Title)
                              \o LinkTag(last.routes[2].value, Title)

C16_WitnessMissing ==
    /\ last.fn = "to_pidgin"
    /\ Len(last.segments) = 2
    /\ HasRoute(last.segments[1])
    /\ RouteWithoutInstance(last.segments[2])
    /\ "instance" \in DOMAIN last.segments[2]
    /\ Len(last.routes) = 1
    /\ IsErrorDict(last.result)

---------------------------------------------------------------------------
(* C17.  The flags of a successful to_pidgin.                              *)

\* the text to_pidgin returns for the first n segments of the last call
PrefixText(n) ==
    to_pidgin(SubSeq(last.segments, 1, n),
              NewEnv(last.before, Refused(last.adds)), last.flag).result.text

\* C17: on success use_memory is true exactly when some segment is a tool
\* with the memory path, use_notebooklm exactly when the flag of the caller
\* is true or some segment is a tool with the NotebookLM path, and each
\* such segment puts 'Use Memory' or 'Use NotebookLM' into the text right
\* after the text of the segments before it.
C17_Flags ==
    (last.fn = "to_pidgin" /\ ~IsErrorDict(last.result)) =>
        /\ last.result.use_memory
               = (\E i \in DOMAIN last.segments :
                      IsTool(last.segments[i], MEMORY_TOOL_PATH))
        /\ last.result.use_notebooklm
               = (last.flag \/ \E i \in DOMAIN last.segments :
                                   IsTool(last.segments[i], NOTEBOOKLM_TOOL_PATH))
        /\ \A i \in DOMAIN last.segments :
               /\ IsTool(last.segments[i], MEMORY_TOOL_PATH)
                      => PrefixText(i) = PrefixText(i - 1)
                                             \o <<"U","s","e"," ","M","e","m","o","r","y">>
               /\ IsTool(last.segments[i], NOTEBOOKLM_TOOL_PATH)
                      => PrefixText(i) = PrefixText(i - 1)
                                             \o <<"U","s","e"," ","N","o","t","e",
                                                  "b","o","o","k","L","M">>
        /\ PrefixText(Len(last.segments)) = last.result.text

C17_Witness ==
    /\ last.fn = "to_pidgin"
    /\ Len(last.segments) = 2
    /\ IsTool(last.segments[1], NOTEBOOKLM_TOOL_PATH)
    /\ IsBlock(last.segments[2])
    /\ ~last.flag
    /\ ~IsErrorDict(last.result)
    /\ last.result.use_notebooklm
    /\ ~last.result.use_memory
    /\ startswith(last.result.text, UseNotebookLM \o <<"<">>)

C17_WitnessFlag ==
    /\ last.fn = "to_pidgin"
    /\ last.segments = <<[type |-> TypeTool, path |-> MEMORY_TOOL_PATH]>>
    /\ last.flag
    /\ last.result = [text |-> UseMemory, use_memory |-> TRUE,
                      use_notebooklm |-> TRUE, custom_tool_urls |-> <<>>]

---------------------------------------------------------------------------
(* C18.  Custom tool segments.                                             *)

IsCustom(segment) ==
    /\ SegmentType(segment) = TypeTool
    /\ Get(segment, "path", <<>>)
           \notin {ROUTE_TOOL_PATH, MEMORY_TOOL_PATH, NOTEBOOKLM_TOOL_PATH}

NotCustom(segment) == ~IsCustom(segment)

\* to_pidgin on the segments of the last call that are no custom tools
WithoutCustom ==
    to_pidgin(SelectSeq(last.segments, NotCustom),
              NewEnv(last.before, Refused(last.adds)), last.flag)

\* C18: on success custom_tool_urls holds one url and title pair for every
\* tool segment with a path that is none of the three reserved ones (a
\* missing path included), in segment order; such a segment puts nothing
\* into the text and makes no store call: text, errors, store and store
\* calls are those of the call without it.
C18_CustomTools ==
    last.fn = "to_pidgin" =>
        /\ ~IsErrorDict(last.result)
               => /\ last.result.custom_tool_urls =
                         [k \in DOMAIN SelectSeq(last.segments, IsCustom) |->
                             [url |-> Get(SelectSeq(last.segments, IsCustom)[k],
                                          "path", <<>>),
                              title |-> Get(SelectSeq(last.segments, IsCustom)[k],
                                            "title", <<>>)]]
                  /\ last.result.text = WithoutCustom.result.text
                  /\ WithoutCustom.result.custom_tool_urls = <<>>
        /\ IsErrorDict(last.result) => last.result = WithoutCustom.result
        /\ WithoutCustom.env.adds = last.adds
        /\ WithoutCustom.env.routes = last.routes
        /\ WithoutCustom.env.fs = fs

C18_Witness ==
    /\ last.fn = "to_pidgin"
    /\ last.segments = <<[type |-> TypeTool, path |-> CustomPath, title |-> Title],
                         [type |-> TypeTool]>>
    /\ last.result.text = <<>>
    /\ last.result.custom_tool_urls =
           <<[url |-> CustomPath, title |-> Title], [url |-> <<>>, title |-> <<>>]>>
    /\ fs = last.before

---------------------------------------------------------------------------
(* C19.  The title of an asset or input segment in its opening tag.        *)

MarkupCharacters == {Quote, "<", ">"}

\* the opening tag up to the attribute value
TagOpen(segment) ==
    IF SegmentType(segment) = TypeAsset
    THEN <<"<","a","s","s","e","t"," ","t","i","t","l","e","=",Quote>>
    ELSE <<"<","i","n","p","u","t"," ","s","o","u","r","c","e","-",
           "a","g","e","n","t","=",Quote>>

\* the closing tag with the newline before it
TagClose(segment) ==
    IF SegmentType(segment) = TypeAsset
    THEN <<"\n","<","/","a","s","s","e","t",">">>
    ELSE <<"\n","<","/","i","n","p","u","t",">">>

\* the text of the block of the only segment of the last call
InnerText ==
    content_to_pidgin_string(last.segments[1].content,
                             NewEnv(last.before, Refused(last.adds)), TRUE).text

\* the attribute value of the opening tag in the text of the last call:
\* what stands between the opening of the tag and the quote, angle bracket
\* and newline that end it
AttributeValue ==
    SubSeq(last.result.text, Len(TagOpen(last.segments[1])) + 1,
           Len(last.result.text) - Len(TagClose(last.segments[1]))
               - Len(InnerText) - 3)

\* C19: the attribute value of the opening tag of an asset or input segment
\* has no markup character of the title in it.
C19_TitleEscaped ==
    (/\ last.fn = "to_pidgin"
     /\ ~IsErrorDict(last.result)
     /\ Len(last.segments) = 1
     /\ IsBlock(last.segments[1])
     /\ ~NoParts(last.segments[1]))
        => /\ startswith(last.result.text, TagOpen(last.segments[1]))
           /\ \A i \in DOMAIN AttributeValue :
                  AttributeValue[i] \notin MarkupCharacters

\* the title stands in the attribute as it was given
C19_TitleVerbatim ==
    (/\ last.fn = "to_pidgin"
     /\ ~IsErrorDict(last.result)
     /\ Len(last.segments) = 1
     /\ IsBlock(last.segments[1])
     /\ ~NoParts(last.segments[1])
     /\ "title" \in DOMAIN last.segments[1])
        => AttributeValue = last.segments[1].title

---------------------------------------------------------------------------
(* C20.  Two to_pidgin calls interleaved on one store.  A call advances by *)
(* one store call at a time: one part of a block, or one segment that is   *)
(* no block, and at last its return.  Between its steps a call keeps its   *)
(* local variables only; the store is the one shared object.               *)
(*   segments, i   the argument and the index of the segment to do next    *)
(*   acc           the local variables of to_pidgin                        *)
(*   j, inner      inside a block: the parts done and the local variables  *)
(*                 of content_to_pidgin_string; j = 0 outside              *)
(*   done, result  the call has returned, and what                         *)

NewCall(segments) ==
    [segments |-> segments, i |-> 1,
     acc |-> [env |-> NewEnv(EmptyFileSystem, {}), values |-> <<>>,
              errors |-> <<>>, use_memory |-> FALSE, use_notebooklm |-> FALSE,
              custom_tool_urls |-> <<>>],
     j |-> 0, inner |-> [env |-> NewEnv(EmptyFileSystem, {}), values |-> <<>>],
     done |-> FALSE, result |-> <<>>]

\* AttachStore with the store the call saw at its start instead of the
\* store as it is now
AttachSnapshot(call, store) == call

\* the store calls of the step go to the shared store as it is now
AttachStore(call, store) ==
    [call EXCEPT !.acc.env.fs = store,
                 !.inner.env = IF call.j = 0
                               THEN [call.acc.env EXCEPT !.fs = store]
                               ELSE [call.inner.env EXCEPT !.fs = store]]

\* the block is done: its text is wrapped and the segment loop goes on
BlockDone(call, segment, inner) ==
    [call EXCEPT !.acc = Wrapped(call.acc, SegmentType(segment),
                                 [title |-> Get(segment, "title", SegmentType(segment))]
                                     @@ Joined(inner)),
                 !.i = @ + 1, !.j = 0,
                 !.inner = [env |-> inner.env, values |-> <<>>]]

\* one part of the block of segment i
BlockPart(call, segment, inner) ==
    IF call.j + 1 = Len(segment.content.parts)
    THEN BlockDone(call, segment, inner)
    ELSE [call EXCEPT !.inner = inner, !.j = @ + 1]

\* the next step of a call whose store calls go to the attached store
Advance(call) ==
    IF call.i > Len(call.segments)
    THEN [call EXCEPT !.done = TRUE, !.result = Returned(call.acc).result]
    ELSE IF IsBlock(call.segments[call.i]) /\ ~NoParts(call.segments[call.i])
    THEN BlockPart(call, call.segments[call.i],
                   PartStep([call.inner EXCEPT
                                !.values = IF call.j = 0 THEN <<>> ELSE @],
                            call.segments[call.i].content.parts[call.j + 1], TRUE))
    ELSE [call EXCEPT !.acc = SegmentStep(call.acc, call.segments[call.i]),
                      !.i = @ + 1]

\* the store after the step
StoreAfter(call) ==
    IF call.j = 0 THEN call.acc.env.fs ELSE call.inner.env.fs

\* the call between two steps: it holds no copy of the store
Detached(call) ==
    [call EXCEPT !.acc.env.fs = EmptyFileSystem,
                 !.inner.env.fs = EmptyFileSystem]

CallSegments ==
    {[type |-> TypeAsset, content |-> [parts |-> <<PartOverThreshold, PartJpeg>>]],
     [type |-> TypeAsset, title |-> Title, content |-> [parts |-> <<PartPng>>]],
     [type |-> TypeTool, path |-> ROUTE_TOOL_PATH, title |-> Title,
      instance |-> Instance]}

\* two calls begin
StartCalls ==
    /\ last.fn = "init"
    /\ \E first \in SeqsUpTo(CallSegments, MaxCallSegments),
          second \in SeqsUpTo(CallSegments, MaxCallSegments) :
           last' = [fn |-> "interleaved",
                    calls |-> <<NewCall(first), NewCall(second)>>]
    /\ UNCHANGED <<fs, setups, cycles>>

\* one of the calls makes its next step
StepCall ==
    /\ last.fn = "interleaved"
    /\ \E p \in DOMAIN last.calls :
           /\ ~last.calls[p].done
           /\ \E next \in {Advance(AttachStore(last.calls[p], fs))} :
                  /\ fs' = StoreAfter(next)
                  /\ last' = [last EXCEPT !.calls[p] = Detached(next)]
    /\ UNCHANGED <<setups, cycles>>

NextInterleaved ==
    \/ StartCalls
    \/ StepCall

SpecInterleaved == Init /\ [][NextInterleaved]_vars

\* the add_part calls a call has made so far
CallAdds(call) == IF call.j = 0 THEN call.acc.env.adds ELSE call.inner.env.adds

\* the call alone on an empty store
Alone(call) == to_pidgin(call.segments, NewEnv(EmptyFileSystem, {}), FALSE)

\* C20: at every moment every handle the store issued to a call resolves
\* to the part that call registered, and the handles and route tokens of
\* the two calls differ; the text a call returns has file tags for exactly
\* the handles issued to that call, content tags and links with its own
\* handles and tokens, and apart from the handles it is what the call
\* returns when it runs alone.
C20_InterleavedCalls ==
    last.fn = "interleaved" =>
        /\ \A p \in DOMAIN last.calls : \A k \in DOMAIN CallAdds(last.calls[p]) :
               /\ CallAdds(last.calls[p])[k].ok
               /\ fs_get(fs, CallAdds(last.calls[p])[k].value)
                      = [ok |-> TRUE, value |-> <<CallAdds(last.calls[p])[k].part>>]
        /\ \A k \in DOMAIN CallAdds(last.calls[1]) :
           \A l \in DOMAIN CallAdds(last.calls[2]) :
               CallAdds(last.calls[1])[k].value # CallAdds(last.calls[2])[l].value
        /\ \A k \in DOMAIN last.calls[1].acc.env.routes :
           \A l \in DOMAIN last.calls[2].acc.env.routes :
               last.calls[1].acc.env.routes[k].value
                   # last.calls[2].acc.env.routes[l].value
        /\ \A p \in DOMAIN last.calls :
               last.calls[p].done =>
                   /\ ~IsErrorDict(last.calls[p].result)
                   /\ TokenPaths(split(last.calls[p].result.text))
                          = IssuedFileHandles(CallAdds(last.calls[p]))
                   /\ \A k \in DOMAIN CallAdds(last.calls[p]) :
                          IsTextPart(CallAdds(last.calls[p])[k].part)
                              => Contains(last.calls[p].result.text,
                                          ContentTag(CallAdds(last.calls[p])[k].value,
                                                     CallAdds(last.calls[p])[k].part.text))
                   /\ \A k \in DOMAIN last.calls[p].acc.env.routes :
                          Contains(last.calls[p].result.text,
                                   LinkTag(last.calls[p].acc.env.routes[k].value, Title))
                   /\ Len(last.calls[p].result.text)
                          = Len(Alone(last.calls[p]).result.text)
                   /\ [k \in DOMAIN CallAdds(last.calls[p]) |->
                          CallAdds(last.calls[p])[k].part]
                          = [k \in DOMAIN Alone(last.calls[p]).env.adds |->
                                Alone(last.calls[p]).env.adds[k].part]

C20_Witness ==
    /\ last.fn = "interleaved"
    /\ last.calls[1].done
    /\ last.calls[2].done
    /\ Len(CallAdds(last.calls[1])) = 2
    /\ Len(CallAdds(last.calls[2])) = 1
    /\ CallAdds(last.calls[1])[2].value = PathFor(3, CallAdds(last.calls[1])[2].part)
    /\ CallAdds(last.calls[2])[1].value = PathFor(2, CallAdds(last.calls[2])[1].part)

---------------------------------------------------------------------------
(* step_executor.py: the client of the executeStep endpoint.  A call       *)
(* returns a value or raises: Return(v) or Raise(type, message).  None is  *)
(* the empty option and Some(v) a value that may have been None.           *)

Return(v) == [ok |-> TRUE, value |-> v]
Raise(type, message) == [ok |-> FALSE, raises |-> type, message |-> message]

None == <<>>
Some(v) == <<v>>
\* bool(x) for x a str, a list or None
Truthy(opt) == opt # None /\ opt[1] # <<>>

GCS_PATH_PREFIX == <<"t","e","x","t","/","g","c","s","-","p","a","t","h","/">>
StoredDataSuffix == <<"/","s","t","o","r","e","d","D","a","t","a">>
BoardBlobs == <<"/","b","o","a","r","d","/","b","l","o","b","s","/">>
TextHtml == <<"t","e","x","t","/","h","t","m","l">>
RoleUser == <<"u","s","e","r">>
RequestedModel == <<"r","e","q","u","e","s","t","e","d","-","m","o","d","e",
        "l">>
ExecutedModel == <<"e","x","e","c","u","t","e","d","-","m","o","d","e","l">>
NoData == <<"U","n","a","b","l","e"," ","t","o"," ","f","i","n","d"," ","d",
        "a","t","a"," ","i","n"," ","t","h","e"," ","o","u","t","p","u","t">>

\* s.endswith(suffix)
endswith(s, suffix) ==
    /\ Len(s) >= Len(suffix)
    /\ SubSeq(s, Len(s) - Len(suffix) + 1, Len(s)) = suffix

\* s.replace(old, "")
RECURSIVE replace(_, _)
replace(s, old) ==
    IF s = <<>> THEN <<>>
    ELSE IF startswith(s, old) THEN replace(SubSeq(s, Len(old) + 1, Len(s)), old)
    ELSE <<s[1]>> \o replace(Tail(s), old)

\* s.rsplit("/", 1)[-1]
rsplit(s) ==
    SubSeq(s, Max({0} \cup {j \in 1..Len(s) : s[j] = "/"}) + 1, Len(s))

\* the characters with code points 32..95 and 97..126, in order
AsciiLow ==
    <<" ","!",Quote,"#","$","%","&","'","(",")","*","+",",","-",".","/","0",
      "1","2","3","4","5","6","7","8","9",":",";","<","=",">","?","@","A",
      "B","C","D","E","F","G","H","I","J","K","L","M","N","O","P","Q","R",
      "S","T","U","V","W","X","Y","Z","[","\\","]","^","_">>
AsciiHigh ==
    <<"a","b","c","d","e","f","g","h","i","j","k","l","m","n","o","p","q",
      "r","s","t","u","v","w","x","y","z","{","|","}","~">>

\* ord(c) and chr(n), for a line feed and the characters of the two tables
ord(c) ==
    IF c = "\n" THEN 10
    ELSE IF \E i \in DOMAIN AsciiLow : AsciiLow[i] = c
    THEN 31 + (CHOOSE i \in DOMAIN AsciiLow : AsciiLow[i] = c)
    ELSE 96 + (CHOOSE i \in DOMAIN AsciiHigh : AsciiHigh[i] = c)
chr(n) ==
    IF n = 10 THEN "\n" ELSE IF n < 96 THEN AsciiLow[n - 31] ELSE AsciiHigh[n - 96]

\* s.encode("utf-8") and b.decode("utf-8"), for such characters
encode(s) == [i \in DOMAIN s |-> ord(s[i])]
decode(b) == [i \in DOMAIN b |-> chr(b[i])]

Base64Alphabet ==
    <<"A","B","C","D","E","F","G","H","I","J","K","L","M","N","O","P","Q",
      "R","S","T","U","V","W","X","Y","Z","a","b","c","d","e","f","g","h",
      "i","j","k","l","m","n","o","p","q","r","s","t","u","v","w","x","y",
      "z","0","1","2","3","4","5","6","7","8","9","+","/">>

Base64Digit(n) == Base64Alphabet[n + 1]
Base64Value(c) == (CHOOSE i \in DOMAIN Base64Alphabet : Base64Alphabet[i] = c) - 1
BASE64_PAD == "="

\* base64.b64encode(b).decode("ascii")
RECURSIVE b64encode(_)
b64encode(b) ==
    IF b = <<>> THEN <<>>
    ELSE IF Len(b) = 1
    THEN <<Base64Digit(b[1] \div 4), Base64Digit((b[1] % 4) * 16),
           BASE64_PAD, BASE64_PAD>>
    ELSE IF Len(b) = 2
    THEN <<Base64Digit(b[1] \div 4),
           Base64Digit((b[1] % 4) * 16 + b[2] \div 16),
           Base64Digit((b[2] % 16) * 4), BASE64_PAD>>
    ELSE <<Base64Digit(b[1] \div 4),
           Base64Digit((b[1] % 4) * 16 + b[2] \div 16),
           Base64Digit((b[2] % 16) * 4 + b[3] \div 64),
           Base64Digit(b[3] % 64)>> \o b64encode(SubSeq(b, 4, Len(b)))

\* one character of the loop of binascii.a2b_base64 in its lenient mode:
\* a pad ends the input once the open quad has two digits and the pads fill
\* it, a character outside the alphabet is skipped, a digit adds six bits
A2bStep(st, c) ==
    IF c = BASE64_PAD
    THEN IF st.quad_pos >= 2
         THEN IF st.quad_pos + st.pads + 1 >= 4
              THEN [st EXCEPT !.done = TRUE]
              ELSE [st EXCEPT !.pads = @ + 1]
         ELSE st
    ELSE IF c \notin {Base64Alphabet[i] : i \in DOMAIN Base64Alphabet} THEN st
    ELSE IF st.quad_pos = 0
    THEN [st EXCEPT !.pads = 0, !.quad_pos = 1, !.leftchar = Base64Value(c)]
    ELSE IF st.quad_pos = 1
    THEN [st EXCEPT !.pads = 0, !.quad_pos = 2,
                    !.bin = Append(@, st.leftchar * 4 + Base64Value(c) \div 16),
                    !.leftchar = Base64Value(c) % 16]
    ELSE IF st.quad_pos = 2
    THEN [st EXCEPT !.pads = 0, !.quad_pos = 3,
                    !.bin = Append(@, st.leftchar * 16 + Base64Value(c) \div 4),
                    !.leftchar = Base64Value(c) % 4]
    ELSE [st EXCEPT !.pads = 0, !.quad_pos = 0,
                    !.bin = Append(@, st.leftchar * 64 + Base64Value(c)),
                    !.leftchar = 0]

RECURSIVE A2bLoop(_, _, _)
A2bLoop(s, i, st) ==
    IF i > Len(s) \/ st.done THEN st ELSE A2bLoop(s, i + 1, A2bStep(st, s[i]))

IncorrectPadding == <<"I","n","c","o","r","r","e","c","t"," ","p","a","d","d",
        "i","n","g">>

\* base64.b64decode(s): the bytes, or binascii.Error when the input ends
\* inside a quad
b64decode(s) ==
    (LET st == A2bLoop(s, 1, [quad_pos |-> 0, pads |-> 0, leftchar |-> 0,
                             bin |-> <<>>, done |-> FALSE])
     IN  IF ~st.done /\ st.quad_pos # 0
         THEN Raise("binascii.Error", IncorrectPadding)
         ELSE Return(st.bin))

StoredContent(handle, mime) ==
    [parts |-> <<[storedData |-> [handle |-> handle, mimeType |-> mime]]>>,
     role |-> RoleUser]

InlineContent(mime, data) ==
    [parts |-> <<[inlineData |-> [mimeType |-> mime, data |-> data]]>>,
     role |-> RoleUser]

\* the branches of _chunk_to_llm_content that decode the data
Decoding(mimetype, data, decoded) ==
    IF ~decoded.ok THEN decoded
    ELSE IF startswith(mimetype, GCS_PATH_PREFIX)
    THEN Return(StoredContent(BoardBlobs \o rsplit(decode(decoded.value)),
                              SubSeq(mimetype, Len(GCS_PATH_PREFIX) + 1,
                                     Len(mimetype))))
    ELSE Return(InlineContent(mimetype, decode(decoded.value)))

\* the body of _chunk_to_llm_content; origin is not used
ChunkToLlmContent(mimetype, data, origin) ==
    IF endswith(mimetype, StoredDataSuffix)
    THEN Return(StoredContent(BoardBlobs \o rsplit(data),
                              replace(mimetype, StoredDataSuffix)))
    ELSE IF startswith(mimetype, GCS_PATH_PREFIX) \/ mimetype = TextHtml
    THEN Decoding(mimetype, data, b64decode(data))
    ELSE Return(InlineContent(mimetype, data))

_chunk_to_llm_content(chunk, origin) ==
    ChunkToLlmContent(Get(chunk, "mimetype", <<>>), Get(chunk, "data", <<>>),
                      origin)

IsMetadata(chunk, name) ==
    "substreamName" \in DOMAIN chunk /\ chunk.substreamName = name

\* chunk.get("data")
DataOf(chunk) == IF "data" \in DOMAIN chunk THEN Some(chunk.data) ELSE None

\* ParseStep that keeps the first model name it met
ParseStepFirstWins(acc, chunk, converted) ==
    IF acc.raised # None THEN acc
    ELSE IF IsMetadata(chunk, RequestedModel)
    THEN [acc EXCEPT !.requested_model =
                         IF @ = None THEN DataOf(chunk) ELSE @]
    ELSE IF IsMetadata(chunk, ExecutedModel)
    THEN [acc EXCEPT !.executed_model =
                         IF @ = None THEN DataOf(chunk) ELSE @]
    ELSE IF converted.ok
    THEN [acc EXCEPT !.result_chunks = Append(@, converted.value)]
    ELSE [acc EXCEPT !.raised = Some(converted)]

\* one iteration of the loop over chunks; converted is what
\* _chunk_to_llm_content makes of the chunk
ParseStep(acc, chunk, converted) ==
    IF acc.raised # None THEN acc
    ELSE IF IsMetadata(chunk, RequestedModel)
    THEN [acc EXCEPT !.requested_model = DataOf(chunk)]
    ELSE IF IsMetadata(chunk, ExecutedModel)
    THEN [acc EXCEPT !.executed_model = DataOf(chunk)]
    ELSE IF converted.ok
    THEN [acc EXCEPT !.result_chunks = Append(@, converted.value)]
    ELSE [acc EXCEPT !.raised = Some(converted)]

RECURSIVE ParseLoop(_, _, _, _)
ParseLoop(chunks, i, acc, origin) ==
    IF i > Len(chunks) THEN acc
    ELSE ParseLoop(chunks, i + 1,
                   ParseStep(acc, chunks[i],
                             _chunk_to_llm_content(chunks[i], origin)),
                   origin)

ModelKey(key, model) == IF Truthy(model) THEN key :> model[1] ELSE <<>>

\* ParseResult without the second test for data
ParseResultUnchecked(acc) ==
    IF acc.raised # None THEN acc.raised[1]
    ELSE Return(("chunks" :> acc.result_chunks)
                    @@ ModelKey("requestedModel", acc.requested_model)
                    @@ ModelKey("executedModel", acc.executed_model))

\* what parse_execution_output does after its loop
ParseResult(acc) ==
    IF acc.raised # None THEN acc.raised[1]
    ELSE IF acc.result_chunks = <<>> THEN Raise("ValueError", NoData)
    ELSE Return(("chunks" :> acc.result_chunks)
                    @@ ModelKey("requestedModel", acc.requested_model)
                    @@ ModelKey("executedModel", acc.executed_model))

\* parse_execution_output(chunks, origin); chunks is None or Some(list)
parse_execution_output(chunks, origin) ==
    IF ~Truthy(chunks) THEN Raise("ValueError", NoData)
    ELSE ParseResult(ParseLoop(chunks[1], 1,
                               [requested_model |-> None, executed_model |-> None,
                                result_chunks |-> <<>>, raised |-> None],
                               origin))

---------------------------------------------------------------------------
(* The calls of the step executor that need no request: chunk lists as the *)
(* tests of test_step_executor.py build them.                              *)

MaxChunks == 3     \* chunks of the list handed to parse_execution_output

BlobUuid == <<"f","5","c","d","3","6","e","3","-","f","6","a","5","-","4","6",
        "9","a","-","b","7","0","2","-","2","9","8","8","6","7","3","5","3",
        "7","9","f">>
GcsPath == <<"l","a","b","s","-","o","p","a","l","-","d","e","v","-","b","l",
        "o","b","s","/">> \o BlobUuid
LocalOrigin == <<"h","t","t","p",":","/","/","l","o","c","a","l","h","o","s",
        "t",":","3","0","0","0">>
Origins == {<<>>, LocalOrigin}

ChunkPng == [mimetype |-> <<"i","m","a","g","e","/","p","n","g">>, data |-> <<
        "i","m","g","1">>]
ChunkRequested ==
    [mimetype |-> <<"x">>, data |-> <<"m","1"
        >>, substreamName |-> RequestedModel]
ChunkRequestedLater ==
    [mimetype |-> <<"x">>, data |-> <<"m","2"
        >>, substreamName |-> RequestedModel]
ChunkRequestedEmpty ==
    [mimetype |-> <<"x">>, data |-> <<>>, substreamName |-> RequestedModel]
ChunkExecuted ==
    [mimetype |-> <<"x">>, data |-> <<"e","1"
        >>, substreamName |-> ExecutedModel]
ChunkStored ==
    [mimetype |-> <<"v","i","d","e","o","/","m","p","4","/","s","t","o","r",
        "e","d","D","a","t","a">>, data |-> <<"l","a","b","s","-","b","u","c",
        "k","e","t","/","a","b","c","-","1","2","3">>]
ChunkGcs ==
    [mimetype |-> <<"t","e","x","t","/","g","c","s","-","p","a","t","h","/",
        "i","m","a","g","e","/","j","p","e","g">>,
     data |-> <<"b","G","F","i","c","y","1","v","c","G","F","s","L","W","R",
        "l","d","i","1","i","b","G","9","i","c","y","9","m","N","W","N","k",
        "M","z","Z","l","M","y","1","m","N","m","E","1","L","T","Q","2","O",
        "W","E","t","Y","j","c","w","M","i","0","y","O","T","g","4","N","j",
        "c","z","N","T","M","3","O","W","Y","=">>]
ChunkGcsStored ==
    [mimetype |-> <<"t","e","x","t","/","g","c","s","-","p","a","t","h","/",
        "i","m","a","g","e","/","j","p","e","g","/","s","t","o","r","e","d",
        "D","a","t","a">>,
     data |-> <<"b","G","F","i","c","y","1","v","c","G","F","s","L","W","R",
        "l","d","i","1","i","b","G","9","i","c","y","9","m","N","W","N","k",
        "M","z","Z","l","M","y","1","m","N","m","E","1","L","T","Q","2","O",
        "W","E","t","Y","j","c","w","M","i","0","y","O","T","g","4","N","j",
        "c","z","N","T","M","3","O","W","Y","=">>]
ChunkHtml ==
    [mimetype |-> TextHtml, data |-> <<"P","G","g","x","P","k","h","l","b",
        "G","x","v","P","C","9","o","M","T","4","=">>,
     substreamName |-> <<"t","h","o","u","g","h","t","s">>]
ChunkBadPadding == [mimetype |-> <<"t","e","x","t","/","g","c","s","-","p",
        "a","t","h","/","i","m","a","g","e","/","p","n","g">>, data |-> <<"a",
        "b","c">>]

Chunks ==
    {ChunkPng, ChunkRequested, ChunkRequestedLater, ChunkRequestedEmpty,
     ChunkExecuted, ChunkStored, ChunkGcs, ChunkGcsStored, ChunkHtml,
     ChunkBadPadding}

\* parse_execution_output(chunks, origin)
ParseExecutionOutput ==
    /\ last.fn = "init"
    /\ \E chunks \in {None} \cup {Some(l) : l \in SeqsUpTo(Chunks, MaxChunks)},
          origin \in Origins :
           last' = [fn |-> "parse_execution_output", chunks |-> chunks,
                    origin |-> origin,
                    result |-> parse_execution_output(chunks, origin)]
    /\ UNCHANGED <<fs, setups, cycles>>

\* resolve_part_to_chunk: an agent file system part becomes a chunk

HexLower == {"0","1","2","3","4","5","6","7","8","9","a","b","c","d","e","f"}
UuidDashes == {9, 14, 19, 24}
UuidLen == 36

\* [0-9a-f]{8}-[0-9a-f]{4}-[0-9a-f]{4}-[0-9a-f]{4}-[0-9a-f]{12}
MatchesUuid(s) ==
    /\ Len(s) = UuidLen
    /\ \A i \in 1..UuidLen :
           IF i \in UuidDashes THEN s[i] = "-" ELSE s[i] \in HexLower

\* the positions where $ matches: the end of the string, and just before a
\* line feed that is its last character
DollarAt(s) == {Len(s)} \cup {n \in {Len(s) - 1} : n >= 0 /\ s[n + 1] = "\n"}

Schemes == {<<"h","t","t","p",":","/","/">>, <<"h","t","t","p","s",":","/","/"
        >>}

\* _BLOB_UUID_RE.match(handle): the scheme, one or more characters other
\* than a line feed, /board/blobs/, the uuid, then $
BlobUuidMatch(handle) ==
    \E scheme \in Schemes, n \in DollarAt(handle) :
        /\ startswith(handle, scheme)
        /\ n - UuidLen - Len(BoardBlobs) > Len(scheme)
        /\ \A i \in (Len(scheme) + 1)..(n - UuidLen - Len(BoardBlobs)) :
               handle[i] # "\n"
        /\ SubSeq(handle, n - UuidLen - Len(BoardBlobs) + 1, n - UuidLen)
               = BoardBlobs
        /\ MatchesUuid(SubSeq(handle, n - UuidLen + 1, n))

_is_blob_handle(handle) == BlobUuidMatch(handle)

TextGcsPath == <<"t","e","x","t","/","g","c","s","-","p","a","t","h">>

_to_gcs_chunk(blob_handle) ==
    [data |-> b64encode(encode(rsplit(blob_handle))), mimetype |-> TextGcsPath]

DrivePrefix == <<"d","r","i","v","e",":">>

\* re.sub(r"^drive:/+", "", handle)
DriveFileId(handle) ==
    IF startswith(handle, DrivePrefix \o <<"/">>)
    THEN SubSeq(handle,
                Min({j \in (Len(DrivePrefix) + 1)..(Len(handle) + 1) :
                        j > Len(handle) \/ handle[j] # "/"}),
                Len(handle))
    ELSE handle

\* the exchange with the server as the client sees it: the request fails,
\* or a response arrives with a status and a body that is JSON or not
ReplyRefused == [sent |-> FALSE]
Reply(status_code, json) ==
    [sent |-> TRUE, status_code |-> status_code, json |-> json]

\* the try block of _upload_blob_file
UploadTry(drive_file_id, reply) ==
    IF ~reply.sent THEN Raise("httpx.ConnectError", <<>>)
    ELSE IF reply.status_code >= 400 THEN Raise("httpx.HTTPStatusError", <<>>)
    ELSE IF reply.json = None THEN Raise("json.JSONDecodeError", <<>>)
    ELSE Return(BoardBlobs \o Get(reply.json[1], "blobId", <<>>))

UnknownHandle(handle) ==
    <<"U","n","k","n","o","w","n"," ","s","t","o","r","e","d","D","a","t","a",
        " ","h","a","n","d","l","e"," ","f","o","r"," ","e","x","e","c","u",
        "t","e","S","t","e","p",":"," ",Quote>> \o handle \o <<Quote>>
FileDataUnsupported == <<"f","i","l","e","D","a","t","a"," ","p","a","r","t",
        "s"," ","a","r","e"," ","n","o","t"," ","s","u","p","p","o","r","t",
        "e","d"," ","i","n"," ","e","x","e","c","u","t","e","S","t","e","p",
        " ","i","n","p","u","t","s">>
UnknownPartType(part) == [text |-> <<"U","n","k","n","o","w","n"," ","p","a",
        "r","t"," ","t","y","p","e",":"," ">>, keys |-> DOMAIN part]

\* the storedData branch
ResolveStored(handle, reply) ==
    IF _is_blob_handle(handle) THEN Return(_to_gcs_chunk(handle))
    ELSE IF startswith(handle, DrivePrefix)
    THEN (LET blob_handle == UploadTry(DriveFileId(handle), reply)
          IN  IF blob_handle.ok THEN Return(_to_gcs_chunk(blob_handle.value))
              ELSE blob_handle)
    ELSE Raise("ValueError", UnknownHandle(handle))

resolve_part_to_chunk(part, reply) ==
    IF "inlineData" \in DOMAIN part
    THEN Return([mimetype |-> Get(part.inlineData, "mimeType", <<>>),
                 data |-> Get(part.inlineData, "data", <<>>)])
    ELSE IF "storedData" \in DOMAIN part
    THEN ResolveStored(Get(part.storedData, "handle", <<>>), reply)
    ELSE IF "fileData" \in DOMAIN part
    THEN Raise("ValueError", FileDataUnsupported)
    ELSE Raise("ValueError", UnknownPartType(part))

\* the parts and the replies of the calls explored
ImageJpeg == <<"i","m","a","g","e","/","j","p","e","g">>
Stored(handle) == [storedData |-> [handle |-> handle, mimeType |-> ImageJpeg]]
UpperUuid == <<"F","5","C","D","3","6","E","3","-","F","6","A","5","-","4",
        "6","9","A","-","B","7","0","2","-","2","9","8","8","6","7","3","5",
        "3","7","9","F">>
StoredHandles ==
    { LocalOrigin \o BoardBlobs \o BlobUuid,
      <<"h","t","t","p","s",":","/","/","e","x","a","m","p","l","e",".","c",
        "o","m","/","a","p","p">> \o BoardBlobs \o BlobUuid,
      LocalOrigin \o BoardBlobs \o BlobUuid \o Newline,
      LocalOrigin \o BoardBlobs \o BlobUuid \o Newline \o Newline,
      LocalOrigin \o Newline \o BoardBlobs \o BlobUuid,
      LocalOrigin \o BoardBlobs \o UpperUuid,
      LocalOrigin \o BoardBlobs \o BlobUuid \o <<"/","x">>,
      <<"h","t","t","p",":","/">> \o BoardBlobs \o BlobUuid,
      <<"f","t","p",":","/","/","h","o","s","t">> \o BoardBlobs \o BlobUuid,
      BoardBlobs \o BlobUuid,
      <<"f","t","p",":","/","/","w","e","i","r","d">>,
      <<"d","r","i","v","e",":","/","f","i","l","e","1">>,
      <<"d","r","i","v","e",":","/","/","/","f","i","l","e","1">>,
      <<"d","r","i","v","e",":","f","i","l","e","1">> }
PartInline ==
    [inlineData |-> [mimeType |-> <<"i","m","a","g","e","/","p","n","g"
        >>, data |-> <<"a","W","1","n">>]]
PartInlineBare == [inlineData |-> [other |-> <<>>]]
PartInlineStored ==
    [inlineData |-> [mimeType |-> <<"i","m","a","g","e","/","p","n","g"
        >>, data |-> <<"a","W","1","n">>],
     storedData |-> [handle |-> <<"f","t","p",":","/","/","w","e","i","r","d"
        >>, mimeType |-> ImageJpeg]]
PartNoHandle == [storedData |-> [mimeType |-> ImageJpeg]]
PartFile == [fileData |-> [fileUri |-> <<"g","s",":","/","/","x">>]]
PartText == [text |-> <<"h","i">>]
Parts ==
    {Stored(handle) : handle \in StoredHandles}
        \cup {PartInline, PartInlineBare, PartInlineStored, PartNoHandle,
              PartFile, PartText}
UploadReplies ==
    { ReplyRefused,
      Reply(200, Some([blobId |-> BlobUuid])),
      Reply(200, Some([other |-> <<>>])),
      Reply(200, None),
      Reply(500, Some([error |-> [message |-> <<"n","o"," ","s","u","c","h",
        " ","f","i","l","e">>]])) }

\* resolve_part_to_chunk(part, ...)
ResolvePartToChunk ==
    /\ last.fn = "init"
    /\ \E part \in Parts, reply \in UploadReplies :
           last' = [fn |-> "resolve_part_to_chunk", part |-> part,
                    reply |-> reply, output |-> FALSE,
                    result |-> resolve_part_to_chunk(part, reply)]
    /\ UNCHANGED <<fs, setups, cycles>>

\* a part that parse_execution_output returned goes back in as a step input
ResolveOutput ==
    /\ last.fn = "parse_execution_output"
    /\ last.result.ok
    /\ \E k \in DOMAIN last.result.value.chunks, reply \in UploadReplies :
           last' = [fn |-> "resolve_part_to_chunk",
                    part |-> last.result.value.chunks[k].parts[1],
                    reply |-> reply, output |-> TRUE,
                    result |-> resolve_part_to_chunk(
                                   last.result.value.chunks[k].parts[1], reply)]
    /\ UNCHANGED <<fs, setups, cycles>>

NextExecutor ==
    \/ ParseExecutionOutput
    \/ ResolvePartToChunk
    \/ ResolveOutput

SpecExecutor == Init /\ [][NextExecutor]_vars

---------------------------------------------------------------------------
(* C21.  Metadata chunks and data chunks of parse_execution_output.        *)

IsParsed(call) == call.fn = "parse_execution_output" /\ call.result.ok

IsRequested(chunk) == IsMetadata(chunk, RequestedModel)
IsExecuted(chunk) == IsMetadata(chunk, ExecutedModel)
IsDataChunk(chunk) == ~IsRequested(chunk) /\ ~IsExecuted(chunk)

\* the model name a result must carry under key: the data of the last
\* metadata chunk of that kind when it is not empty
CarriesModel(result, key, metadata) ==
    IF metadata # <<>> /\ Truthy(DataOf(metadata[Len(metadata)]))
    THEN key \in DOMAIN result /\ result[key] = metadata[Len(metadata)].data
    ELSE key \notin DOMAIN result

\* C21: the chunks of the result are the conversions of the chunks that are
\* neither requested-model nor executed-model chunks, one for one and in
\* their order; requestedModel and executedModel are the data of the last
\* chunk of their kind, and the key is missing when there is no such chunk
\* or its data is empty.
C21_MetadataSeparated ==
    IsParsed(last) =>
        /\ Len(last.result.value.chunks)
               = Len(SelectSeq(last.chunks[1], IsDataChunk))
        /\ \A k \in DOMAIN last.result.value.chunks :
               Return(last.result.value.chunks[k])
                   = _chunk_to_llm_content(
                         SelectSeq(last.chunks[1], IsDataChunk)[k], last.origin)
        /\ CarriesModel(last.result.value, "requestedModel",
                        SelectSeq(last.chunks[1], IsRequested))
        /\ CarriesModel(last.result.value, "executedModel",
                        SelectSeq(last.chunks[1], IsExecuted))
        /\ DOMAIN last.result.value
               \subseteq {"chunks", "requestedModel", "executedModel"}

C21_Witness ==
    /\ IsParsed(last)
    /\ last.chunks[1] = <<ChunkRequested, ChunkPng, ChunkRequestedLater>>
    /\ last.result.value.requestedModel = ChunkRequestedLater.data
    /\ Len(last.result.value.chunks) = 1

C21_WitnessOmitted ==
    /\ IsParsed(last)
    /\ last.chunks[1] = <<ChunkRequested, ChunkRequestedEmpty, ChunkHtml>>
    /\ DOMAIN last.result.value = {"chunks"}

---------------------------------------------------------------------------
(* C22.  When parse_execution_output finds no data.                        *)

\* C22: the call raises ValueError 'Unable to find data in the output'
\* exactly when the chunk list is None, empty or made of metadata chunks
\* only, and a result it returns has at least one chunk.
C22_NoDataRaises ==
    last.fn = "parse_execution_output" =>
        /\ (last.result = Raise("ValueError", NoData))
               <=> (\/ last.chunks = None
                    \/ SelectSeq(last.chunks[1], IsDataChunk) = <<>>)
        /\ last.result.ok => last.result.value.chunks # <<>>

C22_Witness ==
    /\ last.fn = "parse_execution_output"
    /\ last.chunks = Some(<<ChunkRequested, ChunkExecuted>>)
    /\ last.result = Raise("ValueError", NoData)

C22_WitnessOther ==
    /\ last.fn = "parse_execution_output"
    /\ ~last.result.ok
    /\ last.result.raises = "binascii.Error"

---------------------------------------------------------------------------
(* C23.  The handle of a converted GCS-path chunk.                         *)

IsGcsChunk(chunk) == startswith(Get(chunk, "mimetype", <<>>), GCS_PATH_PREFIX)

\* the blob id of a GCS-path chunk: the last component of the decoded path
BlobId(chunk) == rsplit(decode(b64decode(chunk.data).value))

\* C23: each chunk whose mimetype starts with text/gcs-path/ comes back as
\* a storedData part with the handle origin + /board/blobs/ + blob id and
\* the mimetype without the prefix.
C23_GcsHandleOnOrigin ==
    IsParsed(last) =>
        \A k \in DOMAIN last.result.value.chunks :
            IsGcsChunk(SelectSeq(last.chunks[1], IsDataChunk)[k]) =>
                last.result.value.chunks[k].parts
                    = <<[storedData |->
                          [handle |-> last.origin \o BoardBlobs
                               \o BlobId(SelectSeq(last.chunks[1], IsDataChunk)[k]),
                           mimeType |->
                               SubSeq(SelectSeq(last.chunks[1], IsDataChunk)[k].mimetype,
                                      Len(GCS_PATH_PREFIX) + 1,
                                      Len(SelectSeq(last.chunks[1],
                                                    IsDataChunk)[k].mimetype))]]>>

\* what the code does: the handle is /board/blobs/ + blob id whatever the
\* origin, for a GCS-path mimetype that does not end in /storedData
C23_GcsHandleWithoutOrigin ==
    IsParsed(last) =>
        \A k \in DOMAIN last.result.value.chunks :
            (/\ IsGcsChunk(SelectSeq(last.chunks[1], IsDataChunk)[k])
             /\ ~endswith(SelectSeq(last.chunks[1], IsDataChunk)[k].mimetype,
                          StoredDataSuffix)) =>
                last.result.value.chunks[k].parts[1].storedData.handle
                    = BoardBlobs \o BlobId(SelectSeq(last.chunks[1], IsDataChunk)[k])

---------------------------------------------------------------------------
(* C24.  _merge_text_parts leaves its argument alone and keeps the order.  *)

\* the k-th smallest element of a set of numbers
Nth(S, k) == CHOOSE i \in S : Cardinality({j \in S : j <= i}) = k

\* a maximal run of pure-text parts begins at i
TextRunStart(parts, i) ==
    IsPureText(parts[i]) /\ (i = 1 \/ ~IsPureText(parts[i - 1]))

\* the last index of the run that begins at i
TextRunEnd(parts, i) ==
    Max({j \in i..Len(parts) : \A k \in i..j : IsPureText(parts[k])})

\* the places of the input that have a part of the output: every part with
\* another key, and the first part of every run
Places(parts) ==
    {i \in DOMAIN parts : ~IsPureText(parts[i]) \/ TextRunStart(parts, i)}

\* the part of the output that stands for place i
Merged(parts, i) ==
    IF IsPureText(parts[i])
    THEN [text |-> join(Newline, Texts(SubSeq(parts, i, TextRunEnd(parts, i))))]
    ELSE parts[i]

\* C24: after the call the objects of the argument are what they were; the
\* returned list has one part for every part with another key and one for
\* every maximal run of pure-text parts, in the order of the input: the
\* part itself, and the newline-join of the texts of the run.
C24_MergePure ==
    /\ last.fn = "_merge_text_parts" =>
           /\ SubSeq(last.objects.heap, 1, Len(last.parts)) = last.parts
           /\ last.result = [k \in DOMAIN last.objects.merged |->
                                last.objects.heap[last.objects.merged[k]]]
           /\ Len(last.result) = Cardinality(Places(last.parts))
           /\ \A k \in DOMAIN last.result :
                  last.result[k] = Merged(last.parts, Nth(Places(last.parts), k))
    /\ (IsDecoding(last) /\ ~IsErrorDict(last.result)) =>
           /\ Len(last.result.parts) = Cardinality(Places(last.raw))
           /\ \A k \in DOMAIN last.result.parts :
                  last.result.parts[k] = Merged(last.raw, Nth(Places(last.raw), k))

C24_Witness ==
    /\ last.fn = "_merge_text_parts"
    /\ last.parts = <<PartA, [text |-> Newline], PartPng>>
    /\ last.result = <<[text |-> <<"a", "\n", "\n">>], PartPng>>
    /\ last.objects.heap[1] = PartA
    /\ last.objects.merged = <<4, 3>>

---------------------------------------------------------------------------
(* C25.  The text of a successful to_pidgin, segment by segment.           *)

\* the number of add_part calls made for the segments before segment i
BlockOffset(segments, i) == SegmentAddPartCalls(SubSeq(segments, 1, i - 1))

\* what part j of a block puts into the text of the block, as a list of at
\* most one string; add is the add_part call made for it, if one was made
PartValue(parts, j, add, text_as_files) ==
    IF ~Registers(parts[j], text_as_files)
    THEN <<IF IsTextPart(parts[j]) THEN parts[j].text
           ELSE parts[j].storedData.handle>>
    ELSE IF add.ok
    THEN <<IF IsTextPart(parts[j]) THEN ContentTag(add.value, parts[j].text)
           ELSE FileTag(add.value)>>
    ELSE IF IsTextPart(parts[j]) THEN <<parts[j].text>>
    ELSE <<>>

\* the text between the tags of a block whose add_part calls begin after
\* the first offset calls
BlockText(parts, offset, adds, text_as_files) ==
    join(Newline,
         concat([j \in DOMAIN parts |->
                    PartValue(parts, j,
                              IF Registers(parts[j], text_as_files)
                              THEN adds[offset + Rank(parts, j, text_as_files)]
                              ELSE [ok |-> FALSE],
                              text_as_files)]))

\* what segment i puts into the text
SegmentFragment(segments, i, adds, routes) ==
    IF ~IsBlock(segments[i]) THEN Fragment(segments, i, routes)
    ELSE IF NoParts(segments[i]) THEN <<>>
    ELSE IF SegmentType(segments[i]) = TypeAsset
    THEN AssetTag(Get(segments[i], "title", TypeAsset),
                  BlockText(segments[i].content.parts,
                            BlockOffset(segments, i), adds, TRUE))
    ELSE InputTag(Get(segments[i], "title", TypeInput),
                  BlockText(segments[i].content.parts,
                            BlockOffset(segments, i), adds, TRUE))

Concatenated ==
    last.result.text =
        concat([i \in DOMAIN last.segments |->
                   SegmentFragment(last.segments, i, last.adds, last.routes)])

\* C25 as claimed: on success the text is the concatenation of the
\* fragments of the segments in their order, with nothing between them, and
\* the empty segment list gives the empty text with both flags false.
C25_ConcatenatedFlagsFalse ==
    (last.fn = "to_pidgin" /\ ~IsErrorDict(last.result)) =>
        /\ Concatenated
        /\ last.segments = <<>>
               => /\ last.result.text = <<>>
                  /\ ~last.result.use_memory
                  /\ ~last.result.use_notebooklm

\* C25 as amended: on success the text is the concatenation of the
\* fragments of the segments in their order, with nothing between them: the
\* text of a text segment, the wrapped block of an asset or input segment
\* with parts, the link of a routing tool, the literal of a memory or
\* NotebookLM tool, and nothing for any other segment; the empty segment
\* list gives the empty text with use_memory false and use_notebooklm equal
\* to the flag of the caller.
C25_ConcatenatedFlagPassed ==
    (last.fn = "to_pidgin" /\ ~IsErrorDict(last.result)) =>
        /\ Concatenated
        /\ last.segments = <<>>
               => /\ last.result.text = <<>>
                  /\ ~last.result.use_memory
                  /\ last.result.use_notebooklm = last.flag

C25_Witness ==
    /\ last.fn = "to_pidgin"
    /\ ~IsErrorDict(last.result)
    /\ last.segments = <<>>
    /\ last.flag
    /\ last.result.use_notebooklm
    /\ last.result.text = <<>>

C25_WitnessMixed ==
    /\ last.fn = "to_pidgin"
    /\ ~IsErrorDict(last.result)
    /\ Len(last.segments) = 2
    /\ SegmentType(last.segments[1]) = TypeText
    /\ IsBlock(last.segments[2])
    /\ Len(last.adds) = 2
    /\ ~last.adds[1].ok
    /\ last.adds[2].ok
    /\ Get(last.segments[1], "text", <<>>) # <<>>
    /\ last.result.text =
           Get(last.segments[1], "text", <<>>)
               \o SegmentFragment(last.segments, 2, last.adds, last.routes)

---------------------------------------------------------------------------
(* C26.  content_to_pidgin_string with a store that refuses parts.         *)

\* the places of the parts that are not omitted
Emitted(parts, adds, text_as_files) ==
    {j \in DOMAIN parts :
        PartValue(parts, j,
                  IF Registers(parts[j], text_as_files)
                  THEN adds[Rank(parts, j, text_as_files)] ELSE [ok |-> FALSE],
                  text_as_files) # <<>>}

\* C26: the call returns a string whatever the store answers: the values of
\* the parts in their order joined by newlines, where a part without text
\* that the store refuses has no value and is the only kind of part left
\* out, and a text part over the threshold that the store refuses has its
\* full text as value.
C26_BestEffortBlock ==
    last.fn = "content_to_pidgin_string" =>
        /\ last.result = BlockText(Get(last.content, "parts", <<>>), 0, last.adds,
                                   last.text_as_files)
        /\ Len(last.adds)
               = Rank(last.content.parts, Len(last.content.parts),
                      last.text_as_files)
        /\ \A j \in DOMAIN last.content.parts :
               j \notin Emitted(last.content.parts, last.adds, last.text_as_files)
                   <=> /\ ~IsTextPart(last.content.parts[j])
                       /\ ~IsNotebook(last.content.parts[j])
                       /\ ~last.adds[Rank(last.content.parts, j,
                                          last.text_as_files)].ok
        /\ \A j \in DOMAIN last.content.parts :
               (/\ Registers(last.content.parts[j], last.text_as_files)
                /\ IsTextPart(last.content.parts[j])
                /\ ~last.adds[Rank(last.content.parts, j, last.text_as_files)].ok)
                   => Contains(last.result, last.content.parts[j].text)

C26_Witness ==
    /\ last.fn = "content_to_pidgin_string"
    /\ last.text_as_files
    /\ last.content.parts = <<PartPng, PartOverThreshold>>
    /\ Refused(last.adds) = {1, 2}
    /\ last.result = PartOverThreshold.text

C26_WitnessOmitted ==
    /\ last.fn = "content_to_pidgin_string"
    /\ last.content.parts = <<PartPng, PartJpeg>>
    /\ Refused(last.adds) = {1}
    /\ last.result = FileTag(last.adds[2].value)

---------------------------------------------------------------------------
(* C27.  Which store operations each call uses.                            *)

\* the store after the add_part calls adds and the add_route calls routes,
\* and nothing else, have been made on store
Registered(store, adds, routes) ==
    [files |-> [p \in Paths(store)
                      \cup {adds[k].value : k \in DOMAIN adds \ Refused(adds)} |->
                   IF \E k \in DOMAIN adds \ Refused(adds) : adds[k].value = p
                   THEN <<adds[CHOOSE k \in DOMAIN adds \ Refused(adds) :
                                   adds[k].value = p].part>>
                   ELSE store.files[p]],
     count |-> store.count + Cardinality(DOMAIN adds \ Refused(adds)),
     routes |-> store.routes \o [k \in DOMAIN routes |-> routes[k].instance]]

\* the store with the parts of every file taken away
Blank(store) == [store EXCEPT !.files = [p \in DOMAIN @ |-> <<>>]]

\* what an encoding call returns on another store that answers alike
EncodedOn(call, store) ==
    IF call.fn = "to_pidgin"
    THEN to_pidgin(call.segments, NewEnv(store, Refused(call.adds)),
                   call.flag).result
    ELSE content_to_pidgin_string(call.content,
                                  NewEnv(store, Refused(call.adds)),
                                  call.text_as_files).text

\* C27: an encoding call changes the store by its add_part and add_route
\* calls only and returns the same on a store whose files hold nothing, so
\* it reads no file; a decoding call leaves the store as it was, calls get
\* once for every file token of the string, in their order, and the merge
\* does not change the parts the store returned.
C27_StoreAccess ==
    [][/\ IsEncoding(last')
           => /\ fs' = Registered(fs, last'.adds, Get(last', "routes", <<>>))
              /\ EncodedOn(last', Blank(fs)) = last'.result
       /\ IsDecoding(last')
           => /\ fs' = fs
              /\ last'.gets = TokenPaths(split(DecodedText(last')))
              /\ SubSeq(MergeObjects(last'.raw, 1,
                                     [heap |-> last'.raw, merged |-> <<>>],
                                     Newline).heap,
                        1, Len(last'.raw)) = last'.raw]_vars

C27_Witness ==
    /\ last.fn = "round_trip"
    /\ last.encoded.fn = "to_pidgin"
    /\ Len(last.encoded.adds) >= 1
    /\ Len(last.encoded.routes) = 1
    /\ AllAccepted(last.encoded.adds)
    /\ Len(last.gets) = Len(last.encoded.adds)
    /\ fs = Registered(last.encoded.before, last.encoded.adds,
                       last.encoded.routes)

C27_WitnessStored ==
    /\ last.fn = "from_pidgin_string"
    /\ Len(last.gets) = 1
    /\ Len(last.raw) = 2
    /\ IsPureText(last.raw[1])
    /\ IsPureText(last.raw[2])
    /\ fs_get(fs, last.gets[1]) = [ok |-> TRUE, value |-> <<last.raw[1]>>]

---------------------------------------------------------------------------
(* C28.  The store after a to_pidgin call that returned an error.          *)

WellFormed(segment) == ~Malformed(segment)

\* C28: when the call returns an error, its add_part and add_route calls
\* are those of the same call without the malformed segments, the store is
\* the store before with these registrations made, and with a registration
\* the store accepted it is not the store before.
C28_NoRollback ==
    (last.fn = "to_pidgin" /\ IsErrorDict(last.result)) =>
        /\ \A clean \in {to_pidgin(SelectSeq(last.segments, WellFormed),
                                   NewEnv(last.before, Refused(last.adds)),
                                   last.flag)} :
               /\ ~IsErrorDict(clean.result)
               /\ clean.env.adds = last.adds
               /\ clean.env.routes = last.routes
               /\ clean.env.fs = fs
        /\ fs = Registered(last.before, last.adds, last.routes)
        /\ (last.routes # <<>> \/ Refused(last.adds) # DOMAIN last.adds)
               => fs # last.before

C28_Witness ==
    /\ last.fn = "to_pidgin"
    /\ IsErrorDict(last.result)
    /\ Len(last.segments) = 2
    /\ Malformed(last.segments[1])
    /\ IsBlock(last.segments[2])
    /\ Len(last.adds) = 2
    /\ AllAccepted(last.adds)
    /\ fs.count = last.before.count + 2

C28_WitnessBefore ==
    /\ last.fn = "to_pidgin"
    /\ IsErrorDict(last.result)
    /\ Len(last.segments) = 2
    /\ HasRoute(last.segments[1])
    /\ Malformed(last.segments[2])
    /\ Len(fs.routes) = Len(last.before.routes) + 1

---------------------------------------------------------------------------
(* C29.  The storedData handles resolve_part_to_chunk accepts.             *)

IsResolved(call) == call.fn = "resolve_part_to_chunk"

\* the call reached the storedData branch
ReadsHandle(call) ==
    /\ IsResolved(call)
    /\ "inlineData" \notin DOMAIN call.part
    /\ "storedData" \in DOMAIN call.part

HandleOf(call) == Get(call.part.storedData, "handle", <<>>)

HexAnyCase == HexLower \cup {"A","B","C","D","E","F"}

\* an http(s) URL whose last characters are /board/blobs/ and a uuid
EndsInBlobUuid(handle) ==
    /\ \E scheme \in Schemes : startswith(handle, scheme)
    /\ Len(handle) >= Len(BoardBlobs) + UuidLen
    /\ SubSeq(handle, Len(handle) - UuidLen - Len(BoardBlobs) + 1,
              Len(handle) - UuidLen) = BoardBlobs
    /\ \A i \in 1..UuidLen :
           IF i \in UuidDashes THEN handle[Len(handle) - UuidLen + i] = "-"
           ELSE handle[Len(handle) - UuidLen + i] \in HexAnyCase

RejectedHandle(call) ==
    call.result = Raise("ValueError", UnknownHandle(HandleOf(call)))

\* C29: a storedData handle is accepted only if it is an http(s) URL that
\* ends in /board/blobs/<uuid> or it starts with drive:, every other handle
\* raises ValueError, and so does every storedData part that
\* parse_execution_output returned.
C29_HandleAccepted ==
    ReadsHandle(last) =>
        /\ last.result.ok =>
               \/ EndsInBlobUuid(HandleOf(last))
               \/ startswith(HandleOf(last), DrivePrefix)
        /\ (~EndsInBlobUuid(HandleOf(last))
                /\ ~startswith(HandleOf(last), DrivePrefix))
               => RejectedHandle(last)
        /\ last.output => RejectedHandle(last)

\* what the code does: the same with a handle that has one line feed after
\* the uuid accepted as well
C29_HandleAcceptedOrLineFeed ==
    ReadsHandle(last) =>
        /\ last.result.ok =>
               \/ EndsInBlobUuid(HandleOf(last))
               \/ /\ HandleOf(last) # <<>>
                  /\ HandleOf(last)[Len(HandleOf(last))] = "\n"
                  /\ EndsInBlobUuid(SubSeq(HandleOf(last), 1,
                                           Len(HandleOf(last)) - 1))
               \/ startswith(HandleOf(last), DrivePrefix)
        /\ ~last.result.ok =>
               \/ RejectedHandle(last)
               \/ /\ startswith(HandleOf(last), DrivePrefix)
                  /\ last.result = UploadTry(DriveFileId(HandleOf(last)),
                                             last.reply)
        /\ last.output => RejectedHandle(last)

\* the handle with a line feed is accepted, and the line feed is in the
\* blob id of the chunk
C29_LineFeedAccepted ==
    /\ ReadsHandle(last)
    /\ HandleOf(last) = LocalOrigin \o BoardBlobs \o BlobUuid \o Newline
    /\ last.result = Return([data |-> b64encode(encode(BlobUuid \o Newline)),
                             mimetype |-> TextGcsPath])

\* a stored part of an output is rejected on the way back in
C29_OutputRejected ==
    /\ ReadsHandle(last)
    /\ last.output
    /\ HandleOf(last) = BoardBlobs \o BlobUuid
    /\ RejectedHandle(last)

---------------------------------------------------------------------------
(* execute_step and _upload_blob_file: the HTTP client.  A call either     *)
(* makes its own client or uses the one the caller supplied; a session is  *)
(* a sequence of calls that the caller makes with the same client.         *)

MaxCalls == 2      \* calls of one session

ClientFns == {"execute_step", "_upload_blob_file"}

NewClient == [closes |-> 0]
EmptyDict == [key \in {} |-> <<>>]
UnknownError == <<"U","n","k","n","o","w","n"," ","e","r","r","o","r">>
RequestFailed == <<"e","x","e","c","u","t","e","S","t","e","p"," ","r","e",
        "q","u","e","s","t"," ","f","a","i","l","e","d",":"," ">>

\* _decode_error(response.text)
DecodeError(reply) ==
    IF reply.json = None THEN UnknownError
    ELSE Get(Get(reply.json[1], "error", EmptyDict), "message", UnknownError)

\* outputs.get(output_key, {}).get("chunks")
OutputChunks(body, data) ==
    (LET output_key == Get(Get(body, "planStep", EmptyDict), "output", <<>>)
         outputs == Get(data, "executionOutputs", EmptyDict)
         output == Get(outputs, output_key, EmptyDict)
     IN  IF "chunks" \in DOMAIN output THEN Some(output.chunks) ELSE None)

\* the try block of execute_step
ExecuteTry(body, reply) ==
    IF ~reply.sent THEN Raise("httpx.ConnectError", <<>>)
    ELSE IF reply.status_code >= 400
    THEN Raise("ValueError", RequestFailed \o DecodeError(reply))
    ELSE IF reply.json = None THEN Raise("json.JSONDecodeError", <<>>)
    ELSE IF Get(reply.json[1], "errorMessage", <<>>) # <<>>
    THEN Raise("ValueError", reply.json[1].errorMessage)
    ELSE parse_execution_output(OutputChunks(body, reply.json[1]), <<>>)

\* the requests and the replies of the calls explored
OutputName == <<"o","u","t">>
Bodies == {[planStep |-> [output |-> OutputName]], [planStep |-> [step |-> <<>>]]}
Outputs(name, chunks) == [executionOutputs |-> (name :> [chunks |-> chunks])]
ExecuteReplies ==
    { ReplyRefused,
      Reply(500, Some([error |-> [message |-> <<"q","u","o","t","a">>]])),
      Reply(404, None),
      Reply(200, None),
      Reply(200, Some([errorMessage |-> <<"b","o","o","m">>])),
      Reply(200, Some(Outputs(OutputName, <<ChunkPng>>))),
      Reply(200, Some(Outputs(OutputName, <<ChunkRequested, ChunkGcs>>))),
      Reply(200, Some(Outputs(OutputName, <<ChunkExecuted>>))),
      Reply(200, Some(Outputs(OutputName, <<>>))),
      Reply(200, Some(Outputs(<<>>, <<ChunkPng>>))),
      Reply(200, Some([executionOutputs |-> (OutputName :> [other |-> <<>>])])),
      Reply(200, Some([other |-> <<>>])) }
DriveFileIds == {<<"f","i","l","e","1">>}

\* the caller may call: at the start, and after a call has returned
CanCall ==
    \/ last.fn = "init"
    \/ last.fn \in ClientFns /\ last.pc = "done" /\ last.calls < MaxCalls

\* lines 77-79 and 335-337: own_client, and the client made when none came
Enter(fn, arg, client) ==
    [fn |-> fn, arg |-> arg, pc |-> "try",
     own_client |-> client = None,
     own |-> IF client = None THEN Some(NewClient) ELSE None,
     supplied |-> IF last.fn = "init" THEN NewClient ELSE last.supplied,
     reply |-> None, outcome |-> None,
     calls |-> IF last.fn = "init" THEN 1 ELSE last.calls + 1]

\* the finally block that closes the client whoever made it
FinallyCloses(call) ==
    IF call.own_client
    THEN [call EXCEPT !.own = Some([closes |-> @[1].closes + 1]), !.pc = "done"]
    ELSE [call EXCEPT !.supplied.closes = @ + 1, !.pc = "done"]

\* the finally block: if own_client: await client.aclose()
Finally(call) ==
    IF call.own_client
    THEN [call EXCEPT !.own = Some([closes |-> @[1].closes + 1]), !.pc = "done"]
    ELSE [call EXCEPT !.pc = "done"]

ExecuteStepCall ==
    /\ CanCall
    /\ \E body \in Bodies, client \in {None, Some("supplied")} :
           last' = Enter("execute_step", body, client)
    /\ UNCHANGED <<fs, setups, cycles>>

ExecuteStepTry ==
    /\ last.fn = "execute_step"
    /\ last.pc = "try"
    /\ \E reply \in ExecuteReplies :
           last' = [last EXCEPT !.reply = Some(reply),
                                !.outcome = Some(ExecuteTry(last.arg, reply)),
                                !.pc = "finally"]
    /\ UNCHANGED <<fs, setups, cycles>>

ExecuteStepFinally ==
    /\ last.fn = "execute_step"
    /\ last.pc = "finally"
    /\ last' = Finally(last)
    /\ UNCHANGED <<fs, setups, cycles>>

UploadBlobFileCall ==
    /\ CanCall
    /\ \E drive_file_id \in DriveFileIds, client \in {None, Some("supplied")} :
           last' = Enter("_upload_blob_file", drive_file_id, client)
    /\ UNCHANGED <<fs, setups, cycles>>

UploadBlobFileTry ==
    /\ last.fn = "_upload_blob_file"
    /\ last.pc = "try"
    /\ \E reply \in UploadReplies :
           last' = [last EXCEPT !.reply = Some(reply),
                                !.outcome = Some(UploadTry(last.arg, reply)),
                                !.pc = "finally"]
    /\ UNCHANGED <<fs, setups, cycles>>

UploadBlobFileFinally ==
    /\ last.fn = "_upload_blob_file"
    /\ last.pc = "finally"
    /\ last' = Finally(last)
    /\ UNCHANGED <<fs, setups, cycles>>

NextClient ==
    \/ ExecuteStepCall
    \/ ExecuteStepTry
    \/ ExecuteStepFinally
    \/ UploadBlobFileCall
    \/ UploadBlobFileTry
    \/ UploadBlobFileFinally

SpecClient == Init /\ [][NextClient]_vars

---------------------------------------------------------------------------
(* C30.  The client a call made is closed once, the caller's never.        *)

IsClientCall(call) == call.fn \in ClientFns

Exited(call) == IsClientCall(call) /\ call.pc = "done"

\* C30: in execute_step and _upload_blob_file, a client the function made is
\* open until the function exits and has been closed exactly once when it
\* has exited, whatever the outcome, and the client of the caller is never
\* closed.
C30_ClientLifecycle ==
    IsClientCall(last) =>
        /\ last.supplied.closes = 0
        /\ last.own_client = (last.own # None)
        /\ last.own_client =>
               last.own[1].closes = (IF Exited(last) THEN 1 ELSE 0)
        /\ Exited(last) => last.outcome # None

\* the client is closed by the finally step, and by no other
C30_ClosedOnExit ==
    [][IsClientCall(last) /\ IsClientCall(last') /\ last'.calls = last.calls
           => /\ last'.supplied = last.supplied
              /\ (last'.own # last.own) =>
                     (last.pc = "finally" /\ last'.pc = "done")]_vars

ExitedWith(fn, own_client, outcome) ==
    /\ Exited(last)
    /\ last.fn = fn
    /\ last.own_client = own_client
    /\ last.outcome = Some(outcome)
    /\ own_client => last.own[1].closes = 1
    /\ last.supplied.closes = 0

\* an own client closed after HTTP status 500
C30_Witness ==
    ExitedWith("execute_step", TRUE,
               Raise("ValueError", RequestFailed \o <<"q","u","o","t","a">>))

C30_WitnessReturn ==
    ExitedWith("execute_step", TRUE,
               Return([chunks |-> <<InlineContent(ChunkPng.mimetype,
                                                  ChunkPng.data)>>]))

C30_WitnessErrorMessage ==
    ExitedWith("execute_step", TRUE, Raise("ValueError", <<"b","o","o","m">>))

C30_WitnessNoChunks ==
    /\ ExitedWith("execute_step", TRUE, Raise("ValueError", NoData))
    /\ "executionOutputs" \notin DOMAIN last.reply[1].json[1]

C30_WitnessRequestFailed ==
    ExitedWith("execute_step", TRUE, Raise("httpx.ConnectError", <<>>))

C30_WitnessUpload ==
    ExitedWith("_upload_blob_file", TRUE, Raise("httpx.HTTPStatusError", <<>>))

C30_WitnessUploadReturn ==
    ExitedWith("_upload_blob_file", TRUE, Return(BoardBlobs \o BlobUuid))

C30_WitnessSupplied ==
    /\ ExitedWith("execute_step", FALSE, Raise("ValueError", <<"b","o","o","m"
        >>))
    /\ last.calls = MaxCalls
    /\ last.own = None

====
